---- MODULE Spec2Model ----
(***************************************************************************)
(* A model of bevy-compute's ShaderBufferSet (the registry of GPU buffers  *)
(* and textures behind opaque handles) and ShaderBufferRenderSet (the      *)
(* staging buffers used to read results back), src/shader_buffer_set.rs.   *)
(*                                                                         *)
(* The device side is modelled as far as the registry's calls reach it:    *)
(* the contents of every buffer, the writes handed to the RenderQueue and  *)
(* the copies recorded in the RenderContext's command encoder (both take   *)
(* effect when the frame's work is submitted), the image assets and their  *)
(* GPU-side realisation, and the map state of a staging buffer.            *)
(* A buffer's contents are one value of Values (the byte image of the      *)
(* typed value written); sizes and usages are not modelled.                *)
(***************************************************************************)
EXTENDS Integers, Sequences, FiniteSets, TLC

\* ------------------------------------------------------------- bounds
\* ids 0 .. MaxId-1 can be handed out (next_id is a u32 in the source)
MaxId == 3
\* binding declarations name groups 0 .. MaxGroup
MaxGroup == 1
\* typed values written to buffers: 0 (all-zero bytes) .. MaxVal
MaxVal == 1
\* at most MaxCommands writes and copies await submission at a time
MaxCommands == 2
\* at most MaxCopies staging buffers exist at a time
MaxCopies == 1

GroupIds == 0 .. MaxGroup
Values == 0 .. MaxVal

Range(s) == {s[i] : i \in DOMAIN s}

\* ------------------------------------------------- declarations, handles
\* enum Binding
SingleBound(group, binding) ==
    [variant |-> "SingleBound", group |-> group, binding |-> binding]
SingleUnbound == [variant |-> "SingleUnbound"]
Double(group, bindings) ==
    [variant |-> "Double", group |-> group, bindings |-> bindings]

\* the declarations over the given groups, binding indices and index pairs
BindingsOver(gs, indices, pairs) ==
    {SingleUnbound}
        \cup {SingleBound(g, b) : g \in gs, b \in indices}
        \cup {Double(g, bs) : g \in gs, bs \in pairs}

\* enum ShaderBufferHandle
Bound(group, id) == [shape |-> "Bound", group |-> group, id |-> id]
Unbound(id) == [shape |-> "Unbound", id |-> id]
AllHandles ==
    {Bound(g, i) : g \in GroupIds, i \in 0 .. MaxId} \cup {Unbound(i) : i \in 0 .. MaxId}
\* an equality that looks at the id alone
Handle_eq_by_id(a, b) == a.id = b.id
\* #[derive(Eq, PartialEq, Hash)] on ShaderBufferHandle: the same variant with
\* the same fields
Handle_eq(a, b) ==
    /\ a.shape = b.shape
    /\ a.id = b.id
    /\ a.shape = "Bound" => a.group = b.group

\* ------------------------------------------------------------ storages
\* Option<T>
None == <<>>
Some(x) == <<x>>

\* The GPU objects (buffers and images) are named by what made them: storage k
\* of the slot with the given id, or the staging buffer of a handle.
SlotRes(id, k) == [slot |-> id, k |-> k]
CopyRes(handle) == [copy_of |-> handle]

\* enum ShaderBufferStorage; res names its buffer or image
StorageBuf(readonly, res) == [ty |-> "Storage", readonly |-> readonly, res |-> res]
UniformBuf(res) == [ty |-> "Uniform", res |-> res]
Texture(res) == [ty |-> "Texture", res |-> res]
StorageTexture(access, res) == [ty |-> "StorageTexture", access |-> access, res |-> res]

IsBufferStorage(storage) == storage.ty \in {"Storage", "Uniform"}
IsImageStorage(storage) == storage.ty \in {"Texture", "StorageTexture"}

\* ShaderBufferStorage::image_handle
Storage_image_handle(storage) ==
    IF IsImageStorage(storage) THEN Some(storage.res) ELSE None

\* ShaderBufferStorage::bind_group_entry: the entry, and whether the lookup of
\* the texture's GPU image (gpu_images.get(image).unwrap()) fails
Storage_bind_group_entry(storage, binding) ==
    [binding |-> binding, resource |-> storage.res]
Storage_bind_group_entry_panics(storage, gpuImages) ==
    IsImageStorage(storage) /\ storage.res \notin gpuImages

\* ShaderBufferStorage::bind_group_layout_entry_binding_type;
\* access_override is an access or "None"
\* the declared access, whatever the override
AccessDeclared(access_override, declared) == declared
AccessOrDeclared(access_override, declared) ==
    IF access_override = "None" THEN declared ELSE access_override
\* a binding type in which the override also decides a storage buffer's flag
binding_type_overriding_buffers(storage, access_override) ==
    CASE storage.ty = "Storage" ->
            [ty |-> "Buffer", buffer |-> "Storage",
             read_only |-> IF access_override = "None" THEN storage.readonly
                           ELSE access_override = "ReadOnly"]
      [] storage.ty = "Uniform" -> [ty |-> "Buffer", buffer |-> "Uniform"]
      [] storage.ty = "Texture" -> [ty |-> "Texture"]
      [] storage.ty = "StorageTexture" ->
            [ty |-> "StorageTexture",
             access |-> AccessOrDeclared(access_override, storage.access)]
bind_group_layout_entry_binding_type(storage, access_override) ==
    CASE storage.ty = "Storage" ->
            [ty |-> "Buffer", buffer |-> "Storage", read_only |-> storage.readonly]
      [] storage.ty = "Uniform" -> [ty |-> "Buffer", buffer |-> "Uniform"]
      [] storage.ty = "Texture" -> [ty |-> "Texture"]
      [] storage.ty = "StorageTexture" ->
            [ty |-> "StorageTexture",
             access |-> AccessOrDeclared(access_override, storage.access)]

\* ---------------------------------------------------------------- slots
\* enum FrontBuffer
\* a swap that always selects the second storage
ToggleToSecond(front) == "Second"
Toggle(front) == IF front = "First" THEN "Second" ELSE "First"

\* what a make_storage closure makes, before the GPU object is known
StorageKind(readonly) == [ty |-> "Storage", readonly |-> readonly]
UniformKind == [ty |-> "Uniform"]
TextureKind == [ty |-> "Texture"]
StorageTextureKind(access) == [ty |-> "StorageTexture", access |-> access]
make_storage(kind, res) ==
    CASE kind.ty = "Storage" -> StorageBuf(kind.readonly, res)
      [] kind.ty = "Uniform" -> UniformBuf(res)
      [] kind.ty = "Texture" -> Texture(res)
      [] kind.ty = "StorageTexture" -> StorageTexture(kind.access, res)

\* ShaderBufferInfo::new: make_storage is called once, or twice for Double
Info_SingleBound(group, binding, storage) ==
    [variant |-> "SingleBound", group |-> group, binding |-> binding,
     storage |-> <<storage>>]
Info_SingleUnbound(storage) == [variant |-> "SingleUnbound", storage |-> <<storage>>]
Info_Double(group, bindings, front, storages) ==
    [variant |-> "Double", group |-> group, bindings |-> bindings, front |-> front,
     storage |-> storages]

InitialFront == "First"
ShaderBufferInfo_new(binding, kind, id) ==
    CASE binding.variant = "SingleBound" ->
            Info_SingleBound(binding.group, binding.binding, make_storage(kind, SlotRes(id, 1)))
      [] binding.variant = "SingleUnbound" ->
            Info_SingleUnbound(make_storage(kind, SlotRes(id, 1)))
      [] binding.variant = "Double" ->
            Info_Double(binding.group, binding.bindings, InitialFront,
                        <<make_storage(kind, SlotRes(id, 1)), make_storage(kind, SlotRes(id, 2))>>)

\* the pair with the test on front inverted: the front storage first
FrontThenBack(info) ==
    IF info.front = "First"
        THEN <<info.storage[1], info.storage[2]>>
        ELSE <<info.storage[2], info.storage[1]>>
\* the pair (storage1, storage2) of lines 259-260 and 276-277: the storage that
\* is not front first, the front storage second
BackThenFront(info) ==
    IF info.front = "First"
        THEN <<info.storage[2], info.storage[1]>>
        ELSE <<info.storage[1], info.storage[2]>>

\* ShaderBufferInfo::bind_group_entries
bind_group_entries(info) ==
    CASE info.variant = "SingleBound" ->
            <<Storage_bind_group_entry(info.storage[1], info.binding)>>
      [] info.variant = "SingleUnbound" -> <<>>
      [] info.variant = "Double" ->
            <<Storage_bind_group_entry(BackThenFront(info)[1], info.bindings[1]),
              Storage_bind_group_entry(BackThenFront(info)[2], info.bindings[2])>>
bind_group_entries_panics(info, gpuImages) ==
    /\ info.variant # "SingleUnbound"
    /\ \E k \in DOMAIN info.storage :
            Storage_bind_group_entry_panics(info.storage[k], gpuImages)

\* ShaderBufferInfo::bind_group_layout_entry
bind_group_layout_entry(info) ==
    CASE info.variant = "SingleBound" ->
            <<[binding |-> info.binding,
               ty |-> bind_group_layout_entry_binding_type(info.storage[1], "None")]>>
      [] info.variant = "SingleUnbound" -> <<>>
      [] info.variant = "Double" ->
            <<[binding |-> info.bindings[1],
               ty |-> bind_group_layout_entry_binding_type(
                          BackThenFront(info)[1], "ReadOnly")],
              [binding |-> info.bindings[2],
               ty |-> bind_group_layout_entry_binding_type(
                          BackThenFront(info)[2], "WriteOnly")]>>

\* the first storage, whatever front says
FirstStorage(info) == info.storage[1]
\* ShaderBufferInfo::image_handle
FrontStorage(info) ==
    IF info.front = "First" THEN info.storage[1] ELSE info.storage[2]
Info_image_handle(info) ==
    IF info.variant = "Double"
        THEN Storage_image_handle(FrontStorage(info))
        ELSE Storage_image_handle(info.storage[1])

\* ---------------------------------------------------------------- state
VARIABLES
    buffers,        \* ShaderBufferSet.buffers: id -> slot, for the live ids
    groups,         \* ShaderBufferSet.groups: per group, the member ids in order
    next_id,        \* ShaderBufferSet.next_id
    copy_buffers,   \* ShaderBufferRenderSet.copy_buffers: handle -> staging buffer
    images,         \* Assets<Image>: the image assets that exist
    gpu_images,     \* RenderAssets<GpuImage>: the images realised on the GPU
    gpu_mem,        \* the contents of every buffer that exists on the device
    queue,          \* RenderQueue: buffer -> value of its last write not yet submitted
    encoder,        \* RenderContext's command encoder: the copies recorded, not yet submitted
    mapping,        \* the staging buffer being read back: its handle, buffer and map state
    returned,       \* the handles the creation calls have returned, in order
    shadow,         \* the contents each buffer has once every write and copy issued
                    \* so far has taken effect, in the order they were issued
    outcome         \* how the last call ended: returned, or panicked (the program stops)

vars == <<buffers, groups, next_id, copy_buffers, images, gpu_images, gpu_mem, queue,
          encoder, mapping, returned, shadow, outcome>>

EmptyMap == [x \in {} |-> x]
MapPut(f, k, v) == [x \in DOMAIN f \cup {k} |-> IF x = k THEN v ELSE f[x]]
MapPutAll(f, ks, v) == [x \in DOMAIN f \cup ks |-> IF x \in ks THEN v ELSE f[x]]
MapDrop(f, ks) == [x \in DOMAIN f \ ks |-> f[x]]

Returned(value) == [status |-> "ok", value |-> value]
Done == Returned(<<>>)
\* the return of bind_groups and bind_group_layouts: one element per group
ReturnedGroups(result) == [status |-> "ok", groups |-> result]
Panicked(op, reason) == [status |-> "panic", op |-> op, reason |-> reason]
NotMapping == [state |-> "idle"]

\* a call can start: no earlier call has panicked, and no readback is in progress
Running == outcome.status = "ok" /\ mapping.state = "idle"

\* a call that panics before it has changed anything
Panic(op, reason) ==
    /\ outcome' = Panicked(op, reason)
    /\ UNCHANGED <<buffers, groups, next_id, copy_buffers, images, gpu_images, gpu_mem,
                   queue, encoder, mapping, returned, shadow>>

\* ShaderBufferSet::new, ShaderBufferRenderSet::new
Init ==
    /\ buffers = EmptyMap
    /\ groups = <<>>
    /\ next_id = 0
    /\ copy_buffers = EmptyMap
    /\ images = {}
    /\ gpu_images = {}
    /\ gpu_mem = EmptyMap
    /\ queue = EmptyMap
    /\ encoder = {}
    /\ mapping = NotMapping
    /\ returned = <<>>
    /\ shadow = EmptyMap
    /\ outcome = Done

\* ----------------------------------------------------- registry functions
HandleId(handle) == handle.id

\* ShaderBufferSet::get_buffer / get_mut_buffer: the lookup is by id alone
HasBuffer(bufs, handle) == HandleId(handle) \in DOMAIN bufs
get_buffer(bufs, handle) == bufs[HandleId(handle)]

\* Vec::resize(group + 1, Vec::new()) when group >= len
Resized(grps, group) ==
    IF group >= Len(grps)
        THEN grps \o [i \in 1 .. (group + 1 - Len(grps)) |-> <<>>]
        ELSE grps

\* the id handed out, and the counter after it
FreshId(nextId) == nextId
\* store_buffer without its self.next_id += 1
AdvanceStuck(nextId) == nextId
Advance(nextId) == nextId + 1

\* the id inserted at the head of the group's list instead of pushed
GroupsWithAtHead(grps, binding, id) ==
    IF binding.variant \in {"SingleBound", "Double"}
        THEN [Resized(grps, binding.group) EXCEPT ![binding.group + 1] = <<id>> \o @]
        ELSE grps
\* groups after store_buffer's match on the binding
GroupsWith(grps, binding, id) ==
    IF binding.variant \in {"SingleBound", "Double"}
        THEN [Resized(grps, binding.group) EXCEPT ![binding.group + 1] = Append(@, id)]
        ELSE grps

\* the handle store_buffer returns
HandleFor(binding, id) ==
    IF binding.variant \in {"SingleBound", "Double"}
        THEN Bound(binding.group, id)
        ELSE Unbound(id)

\* ShaderBufferSet::store_buffer, on the registry reg = [buffers, groups, next_id]
store_buffer(reg, binding, buffer) ==
    [buffers |-> MapPut(reg.buffers, FreshId(reg.next_id), buffer),
     groups |-> GroupsWith(reg.groups, binding, FreshId(reg.next_id)),
     next_id |-> Advance(reg.next_id),
     handle |-> HandleFor(binding, FreshId(reg.next_id))]

Registry == [buffers |-> buffers, groups |-> groups, next_id |-> next_id]

\* buffers.iter().position(|buffer_id| *buffer_id == id), 0 when there is none
Position(members, id) ==
    IF \E i \in DOMAIN members : members[i] = id
        THEN CHOOSE i \in DOMAIN members :
                /\ members[i] = id
                /\ \A j \in 1 .. (i - 1) : members[j] # id
        ELSE 0
\* Vec::swap_remove(index) in place of Vec::remove(index): the last member takes the hole
RemoveAtSwapping(members, index) ==
    IF index = Len(members)
        THEN SubSeq(members, 1, index - 1)
        ELSE [SubSeq(members, 1, Len(members) - 1) EXCEPT ![index] = members[Len(members)]]
\* Vec::remove(index)
RemoveAt(members, index) ==
    SubSeq(members, 1, index - 1) \o SubSeq(members, index + 1, Len(members))
WithoutId(members, id) ==
    IF Position(members, id) = 0 THEN members ELSE RemoveAt(members, Position(members, id))

\* a delete_buffer that leaves the group lists alone
GroupsKept(grps, handle) == grps
\* the groups after delete_buffer's match on the handle
GroupsWithout(grps, handle) ==
    IF handle.shape = "Bound" /\ handle.group < Len(grps)
        THEN [grps EXCEPT ![handle.group + 1] = WithoutId(@, HandleId(handle))]
        ELSE grps

\* the buffers and the images among the GPU objects of a slot: what
\* ShaderBufferInfo::delete destroys, and removes from the image assets
BufferRes(info) ==
    {info.storage[k].res : k \in {j \in DOMAIN info.storage : IsBufferStorage(info.storage[j])}}
ImageRes(info) ==
    {info.storage[k].res : k \in {j \in DOMAIN info.storage : IsImageStorage(info.storage[j])}}

\* ------------------------------------------------- unsubmitted commands
\* the commands not yet submitted that name none of the objects in gone
\* (a command that names a destroyed buffer has no effect on the others)
QueueWithout(q, gone) == MapDrop(q, gone)
EncoderWithout(enc, gone) == {c \in enc : c.src \notin gone /\ c.dst \notin gone}

BufferCopy(src, dst) == [kind |-> "buffer", src |-> src, dst |-> dst]
TextureCopy(src, dst) == [kind |-> "texture", src |-> src, dst |-> dst]

\* ------------------------------------------------------- creation calls
\* the part every add_* call shares: ShaderBufferInfo::new_*, then store_buffer
Create(binding, kind, contents) ==
    LET info == ShaderBufferInfo_new(binding, kind, next_id)
        reg == store_buffer(Registry, binding, info)
    IN  /\ Running
        /\ next_id < MaxId
        /\ buffers' = reg.buffers
        /\ groups' = reg.groups
        /\ next_id' = reg.next_id
        /\ returned' = Append(returned, reg.handle)
        /\ gpu_mem' = MapPutAll(gpu_mem, BufferRes(info), contents)
        /\ shadow' = MapPutAll(shadow, BufferRes(info), contents)
        /\ images' = images \cup ImageRes(info)
        /\ outcome' = Done
        /\ UNCHANGED <<copy_buffers, gpu_images, queue, encoder, mapping>>

\* a buffer made by create_buffer is zero-initialised by the device
ZeroBytes == 0

add_storage_uninit(binding, readonly) == Create(binding, StorageKind(readonly), ZeroBytes)
add_storage_zeroed(binding, readonly) == Create(binding, StorageKind(readonly), ZeroBytes)
add_storage_init(binding, data, readonly) == Create(binding, StorageKind(readonly), data)
add_uniform_init(binding, data) == Create(binding, UniformKind, data)
add_write_texture(binding, access) == Create(binding, StorageTextureKind(access), ZeroBytes)

\* a pair whose write texture is stored under the read declaration
add_read_write_texture_one_binding(read_binding, write_binding) ==
    LET read == ShaderBufferInfo_new(read_binding, TextureKind, next_id)
        write == ShaderBufferInfo_new(write_binding, StorageTextureKind("ReadWrite"),
                                      next_id + 1)
        reg1 == store_buffer(Registry, read_binding, read)
        reg2 == store_buffer(reg1, read_binding, write)
    IN  /\ Running
        /\ next_id + 1 < MaxId
        /\ buffers' = reg2.buffers
        /\ groups' = reg2.groups
        /\ next_id' = reg2.next_id
        /\ returned' = returned \o <<reg1.handle, reg2.handle>>
        /\ images' = images \cup ImageRes(read) \cup ImageRes(write)
        /\ outcome' = Done
        /\ UNCHANGED <<copy_buffers, gpu_images, gpu_mem, queue, encoder, mapping, shadow>>
add_read_write_texture(read_binding, write_binding) ==
    LET read == ShaderBufferInfo_new(read_binding, TextureKind, next_id)
        write == ShaderBufferInfo_new(write_binding, StorageTextureKind("ReadWrite"),
                                      next_id + 1)
        reg1 == store_buffer(Registry, read_binding, read)
        reg2 == store_buffer(reg1, write_binding, write)
    IN  /\ Running
        /\ next_id + 1 < MaxId
        /\ buffers' = reg2.buffers
        /\ groups' = reg2.groups
        /\ next_id' = reg2.next_id
        /\ returned' = returned \o <<reg1.handle, reg2.handle>>
        /\ images' = images \cup ImageRes(read) \cup ImageRes(write)
        /\ outcome' = Done
        /\ UNCHANGED <<copy_buffers, gpu_images, gpu_mem, queue, encoder, mapping, shadow>>

\* ------------------------------------------------------- registry calls
\* a delete_buffer that panics when the id names no slot
delete_buffer_outcome_strict(bufs, handle) ==
    IF HasBuffer(bufs, handle) THEN Done ELSE Panicked("delete_buffer", "HandleNotFound")
\* how delete_buffer ends: if let Some(mut buffer) = buffer has no else branch
delete_buffer_outcome(bufs, handle) == Done
\* a delete_buffer that releases the storages and leaves the slot in the table
delete_buffer_keeping_slot(handle) ==
    /\ Running
    /\ buffers' = buffers
    /\ groups' = GroupsWithout(groups, handle)
    /\ IF HasBuffer(buffers, handle)
          THEN LET info == get_buffer(buffers, handle)
               IN  /\ gpu_mem' = MapDrop(gpu_mem, BufferRes(info))
                   /\ shadow' = MapDrop(shadow, BufferRes(info))
                   /\ queue' = QueueWithout(queue, BufferRes(info))
                   /\ encoder' = EncoderWithout(encoder, BufferRes(info))
                   /\ images' = images \ ImageRes(info)
          ELSE UNCHANGED <<gpu_mem, shadow, queue, encoder, images>>
    /\ outcome' = delete_buffer_outcome(buffers, handle)
    /\ UNCHANGED <<next_id, copy_buffers, gpu_images, mapping, returned>>
\* a delete_buffer that also drops the staging entry of the handle
delete_buffer_with_staging(handle) ==
    /\ Running
    /\ buffers' = MapDrop(buffers, {HandleId(handle)})
    /\ groups' = GroupsWithout(groups, handle)
    /\ IF HasBuffer(buffers, handle)
          THEN LET info == get_buffer(buffers, handle)
               IN  /\ gpu_mem' = MapDrop(gpu_mem, BufferRes(info))
                   /\ shadow' = MapDrop(shadow, BufferRes(info))
                   /\ queue' = QueueWithout(queue, BufferRes(info))
                   /\ encoder' = EncoderWithout(encoder, BufferRes(info))
                   /\ images' = images \ ImageRes(info)
          ELSE UNCHANGED <<gpu_mem, shadow, queue, encoder, images>>
    /\ copy_buffers' = MapDrop(copy_buffers, {handle})
    /\ outcome' = delete_buffer_outcome(buffers, handle)
    /\ UNCHANGED <<next_id, gpu_images, mapping, returned>>
\* ShaderBufferSet::delete_buffer
delete_buffer(handle) ==
    /\ Running
    /\ buffers' = MapDrop(buffers, {HandleId(handle)})
    /\ groups' = GroupsWithout(groups, handle)
    /\ IF HasBuffer(buffers, handle)
          THEN LET info == get_buffer(buffers, handle)
               IN  /\ gpu_mem' = MapDrop(gpu_mem, BufferRes(info))
                   /\ shadow' = MapDrop(shadow, BufferRes(info))
                   /\ queue' = QueueWithout(queue, BufferRes(info))
                   /\ encoder' = EncoderWithout(encoder, BufferRes(info))
                   /\ images' = images \ ImageRes(info)
          ELSE UNCHANGED <<gpu_mem, shadow, queue, encoder, images>>
    /\ outcome' = delete_buffer_outcome(buffers, handle)
    /\ UNCHANGED <<next_id, copy_buffers, gpu_images, mapping, returned>>

\* a swap that also exchanges the two storages
SwappedStorages(info) == [info EXCEPT !.front = Toggle(@), !.storage = <<@[2], @[1]>>]
\* the slot after the match arm of swap_front_buffer
Swapped(info) == [info EXCEPT !.front = Toggle(@)]
\* a swap_front_buffer that returns silently on a slot that is not Double
swap_front_buffer_lenient(handle) ==
    /\ Running
    /\ IF ~HasBuffer(buffers, handle)
          THEN Panic("swap_front_buffer", "HandleNotFound")
          ELSE /\ buffers' = IF get_buffer(buffers, handle).variant = "Double"
                                THEN [buffers EXCEPT ![HandleId(handle)] = Swapped(@)]
                                ELSE buffers
               /\ outcome' = Done
               /\ UNCHANGED <<groups, next_id, copy_buffers, images, gpu_images, gpu_mem,
                              queue, encoder, mapping, returned, shadow>>
\* ShaderBufferSet::swap_front_buffer
swap_front_buffer(handle) ==
    /\ Running
    /\ IF ~HasBuffer(buffers, handle)
          THEN Panic("swap_front_buffer", "HandleNotFound")
          ELSE IF get_buffer(buffers, handle).variant # "Double"
          THEN Panic("swap_front_buffer", "NotDoubleBuffered")
          ELSE /\ buffers' = [buffers EXCEPT ![HandleId(handle)] = Swapped(@)]
               /\ outcome' = Done
               /\ UNCHANGED <<groups, next_id, copy_buffers, images, gpu_images, gpu_mem,
                              queue, encoder, mapping, returned, shadow>>

\* ShaderBufferSet::image_handle
image_handle(bufs, handle) ==
    IF HasBuffer(bufs, handle) THEN Info_image_handle(get_buffer(bufs, handle)) ELSE None
\* the call: it returns image_handle(buffers, handle) and changes nothing
ImageHandle(handle) ==
    /\ Running
    /\ outcome' = Done
    /\ UNCHANGED <<buffers, groups, next_id, copy_buffers, images, gpu_images, gpu_mem,
                   queue, encoder, mapping, returned, shadow>>

\* ----------------------------------------------------------- the device
\* the writes and copies that await submission
Unsubmitted(q, enc) == Cardinality(DOMAIN q) + Cardinality(enc)

\* the buffer contents once the queued writes have been applied
AfterWrites(mem, q) == [b \in DOMAIN mem |-> IF b \in DOMAIN q THEN q[b] ELSE mem[b]]
\* a submission that drops the recorded copies
AfterCopiesDropped(mem, enc) == mem
\* the buffer contents once the recorded buffer copies have been applied
\* (a staging buffer is the destination of copies from one source only)
AfterCopies(mem, enc) ==
    [b \in DOMAIN mem |->
        IF \E c \in enc : c.kind = "buffer" /\ c.dst = b /\ c.src \in DOMAIN mem
            THEN mem[(CHOOSE c \in enc : c.kind = "buffer" /\ c.dst = b /\ c.src \in DOMAIN mem).src]
            ELSE mem[b]]

\* The frame's work is submitted: the queue's pending writes take effect first,
\* then the command buffer of the encoder.
Submit ==
    /\ Running
    /\ queue # EmptyMap \/ encoder # {}
    /\ gpu_mem' = AfterCopies(AfterWrites(gpu_mem, queue), encoder)
    /\ queue' = EmptyMap
    /\ encoder' = {}
    /\ outcome' = Done
    /\ UNCHANGED <<buffers, groups, next_id, copy_buffers, images, gpu_images, mapping,
                   returned, shadow>>

\* The render world prepares the image assets: every image that exists is
\* realised on the GPU, every removed one is dropped.
PrepareAssets ==
    /\ Running
    /\ gpu_images # images
    /\ gpu_images' = images
    /\ outcome' = Done
    /\ UNCHANGED <<buffers, groups, next_id, copy_buffers, images, gpu_mem, queue,
                   encoder, mapping, returned, shadow>>

\* --------------------------------------------------------------- writes
\* a set that writes the first storage of the slot only
SetTargetsFirstOnly(info) == <<info.storage[1]>>
\* ShaderBufferInfo::set: the storages written, in order (one, or both of a Double)
SetTargets(info) == info.storage
\* a set that finds every storage writable
FirstNotWritableNone(info) == 0
\* the first storage, in that order, on which ShaderBufferStorage::set panics; 0 if none
FirstNotWritable(info) ==
    IF \E k \in DOMAIN info.storage : ~IsBufferStorage(info.storage[k])
        THEN CHOOSE k \in DOMAIN info.storage :
                /\ ~IsBufferStorage(info.storage[k])
                /\ \A j \in 1 .. (k - 1) : IsBufferStorage(info.storage[j])
        ELSE 0
\* the queue after render_queue.write_buffer(buffer, 0, bytes) on the storages
\* before position stop (all of them when stop = 0)
Written(info, stop) ==
    {SetTargets(info)[k].res : k \in {j \in DOMAIN SetTargets(info) : stop = 0 \/ j < stop}}
QueueAfterSet(q, info, data, stop) == MapPutAll(q, Written(info, stop), data)

\* ShaderBufferSet::set_buffer
set_buffer(handle, data) ==
    /\ Running
    /\ IF ~HasBuffer(buffers, handle)
          THEN Panic("set_buffer", "HandleNotFound")
          ELSE LET info == get_buffer(buffers, handle)
                   stop == FirstNotWritable(info)
               IN  /\ queue' = QueueAfterSet(queue, info, data, stop)
                   /\ Unsubmitted(queue', encoder) <= MaxCommands
                   /\ shadow' = MapPutAll(shadow, Written(info, stop), data)
                   /\ outcome' = IF stop = 0 THEN Done
                                 ELSE Panicked("set_buffer", "InvalidBufferKind")
                   /\ UNCHANGED <<buffers, groups, next_id, copy_buffers, images,
                                  gpu_images, gpu_mem, encoder, mapping, returned>>

\* ------------------------------------------------------------ bind groups
\* a flat_map that stops after the first member
FlattenFirstOnly(seqs) == IF seqs = <<>> THEN <<>> ELSE Head(seqs)
RECURSIVE Flatten(_)
Flatten(seqs) == IF seqs = <<>> THEN <<>> ELSE Head(seqs) \o Flatten(Tail(seqs))

\* the ids bind_groups and bind_group_layouts look up: self.buffers.get(id)
LookedUp(grps) == UNION {Range(grps[g]) : g \in DOMAIN grps}

\* bind_group_layout, for the member ids of one group
GroupLayout(bufs, members) ==
    Flatten([i \in DOMAIN members |-> bind_group_layout_entry(bufs[members[i]])])
GroupEntries(bufs, members) ==
    Flatten([i \in DOMAIN members |-> bind_group_entries(bufs[members[i]])])

\* ShaderBufferSet::bind_group_layouts, ShaderBufferSet::bind_groups
bind_group_layouts(bufs, grps) ==
    [g \in DOMAIN grps |-> [layout |-> GroupLayout(bufs, grps[g])]]
bind_groups(bufs, grps) ==
    [g \in DOMAIN grps |->
        [layout |-> GroupLayout(bufs, grps[g]), entries |-> GroupEntries(bufs, grps[g])]]

\* self.buffers.get(id).unwrap() fails
MissingId(bufs, grps) == \E id \in LookedUp(grps) : id \notin DOMAIN bufs
\* gpu_images.get(image).unwrap() fails
MissingImage(bufs, grps, gpuImages) ==
    \E id \in LookedUp(grps) \cap DOMAIN bufs : bind_group_entries_panics(bufs[id], gpuImages)

BindGroupLayouts ==
    /\ Running
    /\ IF MissingId(buffers, groups)
          THEN Panic("bind_group_layouts", "HandleNotFound")
          ELSE /\ outcome' = ReturnedGroups(bind_group_layouts(buffers, groups))
               /\ UNCHANGED <<buffers, groups, next_id, copy_buffers, images, gpu_images,
                              gpu_mem, queue, encoder, mapping, returned, shadow>>

BindGroups ==
    /\ Running
    /\ IF MissingId(buffers, groups)
          THEN Panic("bind_groups", "HandleNotFound")
          ELSE IF MissingImage(buffers, groups, gpu_images)
          THEN Panic("bind_groups", "MissingGpuResource")
          ELSE /\ outcome' = ReturnedGroups(bind_groups(buffers, groups))
               /\ UNCHANGED <<buffers, groups, next_id, copy_buffers, images, gpu_images,
                              gpu_mem, queue, encoder, mapping, returned, shadow>>

\* a copy_texture that does not look the images up on the GPU
copy_texture_unrealized(src_handle, dst_handle) ==
    /\ Running
    /\ IF ~(HasBuffer(buffers, src_handle) /\ HasBuffer(buffers, dst_handle))
          THEN Panic("copy_texture", "HandleNotFound")
          ELSE IF None \in {image_handle(buffers, src_handle), image_handle(buffers, dst_handle)}
          THEN Panic("copy_texture", "NoImage")
          ELSE /\ encoder' = encoder \cup {TextureCopy(image_handle(buffers, src_handle)[1],
                                                      image_handle(buffers, dst_handle)[1])}
               /\ Unsubmitted(queue, encoder') <= MaxCommands
               /\ outcome' = Done
               /\ UNCHANGED <<buffers, groups, next_id, copy_buffers, images, gpu_images,
                              gpu_mem, queue, mapping, returned, shadow>>
\* ShaderBufferSet::copy_texture
copy_texture(src_handle, dst_handle) ==
    /\ Running
    /\ IF ~(HasBuffer(buffers, src_handle) /\ HasBuffer(buffers, dst_handle))
          THEN Panic("copy_texture", "HandleNotFound")
          ELSE IF None \in {image_handle(buffers, src_handle),
                            image_handle(buffers, dst_handle)}
          THEN Panic("copy_texture", "NoImage")
          ELSE IF ~({image_handle(buffers, src_handle)[1],
                     image_handle(buffers, dst_handle)[1]} \subseteq gpu_images)
          THEN Panic("copy_texture", "MissingGpuResource")
          ELSE /\ encoder' = encoder \cup {TextureCopy(image_handle(buffers, src_handle)[1],
                                                       image_handle(buffers, dst_handle)[1])}
               /\ Unsubmitted(queue, encoder') <= MaxCommands
               /\ outcome' = Done
               /\ UNCHANGED <<buffers, groups, next_id, copy_buffers, images, gpu_images,
                              gpu_mem, queue, mapping, returned, shadow>>

\* ------------------------------------------------------------- readback
\* the slot is a single storage buffer: the checks create_copy_buffer and
\* copy_to_copy_buffer make on the source, as the reason of the panic or "ok"
\* a source check that lets a uniform buffer through
SourceCheckAnyBuffer(bufs, handle) ==
    IF ~HasBuffer(bufs, handle) THEN "HandleNotFound"
    ELSE IF get_buffer(bufs, handle).variant = "Double" THEN "DoubleBuffered"
    ELSE IF ~IsBufferStorage(get_buffer(bufs, handle).storage[1]) THEN "InvalidBufferKind"
    ELSE "ok"
SourceCheck(bufs, handle) ==
    IF ~HasBuffer(bufs, handle) THEN "HandleNotFound"
    ELSE IF get_buffer(bufs, handle).variant = "Double" THEN "DoubleBuffered"
    ELSE IF get_buffer(bufs, handle).storage[1].ty # "Storage" THEN "InvalidBufferKind"
    ELSE "ok"

\* create_copy_buffer without its contains_key test
HasCopyUntested(copies, handle) == FALSE
HasCopy(copies, handle) == \E key \in DOMAIN copies : Handle_eq(key, handle)

\* ShaderBufferRenderSet::create_copy_buffer
create_copy_buffer(handle) ==
    /\ Running
    /\ IF HasCopy(copy_buffers, handle)
          THEN Panic("create_copy_buffer", "DuplicateStaging")
          ELSE IF SourceCheck(buffers, handle) # "ok"
          THEN Panic("create_copy_buffer", SourceCheck(buffers, handle))
          ELSE /\ copy_buffers' = MapPut(copy_buffers, handle, CopyRes(handle))
               /\ Cardinality(DOMAIN copy_buffers') <= MaxCopies
               /\ gpu_mem' = MapPut(gpu_mem, CopyRes(handle), ZeroBytes)
               /\ shadow' = MapPut(shadow, CopyRes(handle), ZeroBytes)
               /\ outcome' = Done
               /\ UNCHANGED <<buffers, groups, next_id, images, gpu_images, queue,
                              encoder, mapping, returned>>

\* a remove_copy_buffer that destroys the buffer and keeps the entry
remove_copy_buffer_keeping(handle) ==
    /\ Running
    /\ IF ~HasCopy(copy_buffers, handle)
          THEN Panic("remove_copy_buffer", "MissingStaging")
          ELSE /\ gpu_mem' = MapDrop(gpu_mem, {copy_buffers[handle]})
               /\ shadow' = MapDrop(shadow, {copy_buffers[handle]})
               /\ queue' = QueueWithout(queue, {copy_buffers[handle]})
               /\ encoder' = EncoderWithout(encoder, {copy_buffers[handle]})
               /\ outcome' = Done
               /\ UNCHANGED <<buffers, groups, next_id, copy_buffers, images, gpu_images,
                              mapping, returned>>
\* ShaderBufferRenderSet::remove_copy_buffer
remove_copy_buffer(handle) ==
    /\ Running
    /\ IF ~HasCopy(copy_buffers, handle)
          THEN Panic("remove_copy_buffer", "MissingStaging")
          ELSE /\ gpu_mem' = MapDrop(gpu_mem, {copy_buffers[handle]})
               /\ shadow' = MapDrop(shadow, {copy_buffers[handle]})
               /\ queue' = QueueWithout(queue, {copy_buffers[handle]})
               /\ encoder' = EncoderWithout(encoder, {copy_buffers[handle]})
               /\ copy_buffers' = MapDrop(copy_buffers, {handle})
               /\ outcome' = Done
               /\ UNCHANGED <<buffers, groups, next_id, images, gpu_images, mapping,
                              returned>>

\* ShaderBufferRenderSet::copy_to_copy_buffer
copy_to_copy_buffer(handle) ==
    /\ Running
    /\ IF SourceCheck(buffers, handle) # "ok"
          THEN Panic("copy_to_copy_buffer", SourceCheck(buffers, handle))
          ELSE IF ~HasCopy(copy_buffers, handle)
          THEN Panic("copy_to_copy_buffer", "MissingStaging")
          ELSE /\ encoder' = encoder \cup
                    {BufferCopy(get_buffer(buffers, handle).storage[1].res,
                                copy_buffers[handle])}
               /\ Unsubmitted(queue, encoder') <= MaxCommands
               /\ shadow' = [shadow EXCEPT ![copy_buffers[handle]] =
                                 shadow[get_buffer(buffers, handle).storage[1].res]]
               /\ outcome' = Done
               /\ UNCHANGED <<buffers, groups, next_id, copy_buffers, images, gpu_images,
                              gpu_mem, queue, mapping, returned>>

\* ShaderBufferRenderSet::copy_from_copy_buffer_to_vec, in its three steps.
\* The call: map_async is issued on the staging buffer, and the caller blocks
\* in device.poll(Maintain::Wait).
copy_from_copy_buffer_to_vec(handle) ==
    /\ Running
    /\ IF ~HasCopy(copy_buffers, handle)
          THEN Panic("copy_from_copy_buffer_to_vec", "MissingStaging")
          ELSE /\ mapping' = [state |-> "pending", handle |-> handle,
                              buffer |-> copy_buffers[handle]]
               /\ UNCHANGED <<buffers, groups, next_id, copy_buffers, images, gpu_images,
                              gpu_mem, queue, encoder, returned, shadow, outcome>>

\* The device completes the map request; the callback sends the result.
MapCompletes ==
    /\ mapping.state = "pending"
    /\ mapping' = [mapping EXCEPT !.state = "mapped"]
    /\ UNCHANGED <<buffers, groups, next_id, copy_buffers, images, gpu_images, gpu_mem,
                   queue, encoder, returned, shadow, outcome>>

\* a read that does not wait for the map request to complete
ReadMappedRangeEarly ==
    /\ mapping.state \in {"pending", "mapped"}
    /\ mapping' = NotMapping
    /\ outcome' = Returned(<<gpu_mem[mapping.buffer]>>)
    /\ UNCHANGED <<buffers, groups, next_id, copy_buffers, images, gpu_images, gpu_mem,
                   queue, encoder, returned, shadow>>
\* receiver.recv() returns: the mapped range is read, the buffer is unmapped,
\* the bytes are returned.
ReadMappedRange ==
    /\ mapping.state = "mapped"
    /\ mapping' = NotMapping
    /\ outcome' = Returned(<<gpu_mem[mapping.buffer]>>)
    /\ UNCHANGED <<buffers, groups, next_id, copy_buffers, images, gpu_images, gpu_mem,
                   queue, encoder, returned, shadow>>

\* ------------------------------------------------------------ the system
\* The handles a caller holds: those the registry returned, and handles it
\* never returned (the id MaxId is never handed out).
NeverReturned == {Unbound(MaxId), Bound(0, MaxId)}
Handles == Range(returned) \cup NeverReturned

\* The calls on the ShaderBufferSet, with their arguments drawn from the given
\* sets (declarations, read-only flags, storage-texture accesses, typed values;
\* limit caps the ids handed out), and the steps of the device and the assets.
BufferSetNext(binds, flags, accesses, datas, limit) ==
    \/ \E b \in binds, r \in flags : next_id < limit /\ add_storage_uninit(b, r)
    \/ \E b \in binds, r \in flags : next_id < limit /\ add_storage_zeroed(b, r)
    \/ \E b \in binds, d \in datas, r \in flags : next_id < limit /\ add_storage_init(b, d, r)
    \/ \E b \in binds, d \in datas : next_id < limit /\ add_uniform_init(b, d)
    \/ \E b \in binds, a \in accesses : next_id < limit /\ add_write_texture(b, a)
    \/ \E rb \in binds, wb \in binds : next_id + 1 < limit /\ add_read_write_texture(rb, wb)
    \/ \E h \in Handles : delete_buffer(h)
    \/ \E h \in Handles : swap_front_buffer(h)
    \/ \E h \in Handles : ImageHandle(h)
    \/ \E h \in Handles, d \in datas : set_buffer(h, d)
    \/ BindGroups
    \/ BindGroupLayouts
    \/ \E s \in Handles, d \in Handles : copy_texture(s, d)
    \/ Submit
    \/ PrepareAssets

\* The calls on the ShaderBufferRenderSet, and the device's step in a readback.
RenderSetNext ==
    \/ \E h \in Handles : create_copy_buffer(h)
    \/ \E h \in Handles : remove_copy_buffer(h)
    \/ \E h \in Handles : copy_to_copy_buffer(h)
    \/ \E h \in Handles : copy_from_copy_buffer_to_vec(h)
    \/ MapCompletes
    \/ ReadMappedRange

\* Both sets and the device: every kind of resource, declared in group 0.
SlotBindings == BindingsOver({0}, {2}, {<<0, 1>>})
SlotAccesses == {"ReadOnly", "WriteOnly"}
SlotValues == Values \ {ZeroBytes}
Next ==
    \/ BufferSetNext(SlotBindings, BOOLEAN, SlotAccesses, SlotValues, MaxId - 1)
    \/ RenderSetNext
Spec == Init /\ [][Next]_vars

\* Readback: storage buffers written, copied to staging buffers and read back,
\* when the device completes every map request it was given
\* (device.poll(Maintain::Wait) returns) and the call then runs to its return.
NextReadback ==
    \/ \E b \in SlotBindings, d \in SlotValues :
            next_id < MaxId - 1 /\ add_storage_init(b, d, FALSE)
    \/ \E h \in Handles : delete_buffer(h)
    \/ \E h \in Handles, d \in SlotValues : set_buffer(h, d)
    \/ Submit
    \/ RenderSetNext
SpecReadback ==
    Init /\ [][NextReadback]_vars /\ WF_vars(MapCompletes) /\ WF_vars(ReadMappedRange)

\* Handles built by the caller: the fields of ShaderBufferHandle are public, so
\* the render set can be called with any shape and group next to any id.
NextHandles ==
    \/ \E b \in SlotBindings, d \in SlotValues :
            next_id < MaxId - 1 /\ add_storage_init(b, d, FALSE)
    \/ \E h \in AllHandles : create_copy_buffer(h)
    \/ \E h \in AllHandles : remove_copy_buffer(h)
    \/ \E h \in AllHandles : copy_to_copy_buffer(h)
    \/ \E h \in AllHandles : copy_from_copy_buffer_to_vec(h)
    \/ MapCompletes
    \/ ReadMappedRange
    \/ Submit
SpecHandles == Init /\ [][NextHandles]_vars

\* The group table: buffers declared over every group, one id more.
Bindings == BindingsOver(GroupIds, {0}, {<<0, 1>>})
NextGroups ==
    \/ \E b \in Bindings : add_storage_uninit(b, FALSE)
    \/ \E b \in Bindings : add_uniform_init(b, ZeroBytes)
    \/ \E rb, wb \in Bindings : add_read_write_texture(rb, wb)
    \/ PrepareAssets
    \/ \E h \in Handles : delete_buffer(h)
    \/ \E h \in Handles : swap_front_buffer(h)
    \/ BindGroups
    \/ BindGroupLayouts
SpecGroups == Init /\ [][NextGroups]_vars

\* ============================================================ properties
\* the ids of the handles returned so far, in the order they were returned
ReturnedIds == [i \in DOMAIN returned |-> returned[i].id]
\* the members of a group list without one id, the others in their order
Remaining(members, id) == SelectSeq(members, LAMBDA x : x # id)

\* C1: the ids of the handles the creation calls return are strictly
\* increasing in the order of the calls, so no id is handed out twice, whether
\* or not the slot of an earlier id has been deleted in between; the counter
\* stays above every id handed out, so the next id is new as well.
C1_IdsStrictlyIncrease ==
    /\ \A i, j \in DOMAIN returned : i < j => ReturnedIds[i] < ReturnedIds[j]
    /\ \A i \in DOMAIN returned : ReturnedIds[i] < next_id
    /\ \A id \in DOMAIN buffers : id < next_id
\* a later handle is live while the slot of the first handle returned is gone
C1_Witness ==
    /\ Len(returned) >= 2
    /\ ReturnedIds[1] \notin DOMAIN buffers
    /\ ReturnedIds[Len(returned)] \in DOMAIN buffers
    /\ ReturnedIds[Len(returned)] > ReturnedIds[1]

\* C2: delete_buffer on the handle of a live slot removes exactly that slot
\* from the slot table and removes its id from the group lists, the remaining
\* ids keeping their order; afterwards no group list names the id of a deleted
\* handle, every id a group list names is live, and bind_groups never looks
\* up a missing id.
C2_DeleteRemovesSlotAndMember ==
    /\ [][\A h \in Range(returned) :
            (h.id \in DOMAIN buffers /\ delete_buffer(h)) =>
                /\ DOMAIN buffers' = DOMAIN buffers \ {h.id}
                /\ \A id \in DOMAIN buffers' : buffers'[id] = buffers[id]
                /\ Len(groups') = Len(groups)
                /\ \A g \in DOMAIN groups : groups'[g] = Remaining(groups[g], h.id)]_vars
    /\ [](\A h \in Range(returned) :
            h.id \notin DOMAIN buffers =>
                \A g \in DOMAIN groups : \A i \in DOMAIN groups[g] : groups[g][i] # h.id)
    /\ [](\A g \in DOMAIN groups : \A i \in DOMAIN groups[g] : groups[g][i] \in DOMAIN buffers)
    /\ [](outcome # Panicked("bind_groups", "HandleNotFound"))
    /\ [](outcome # Panicked("bind_group_layouts", "HandleNotFound"))
\* the middle one of three members of a group has been deleted
C2_Witness ==
    \E h \in Range(returned) :
        /\ h.shape = "Bound"
        /\ h.id \notin DOMAIN buffers
        /\ h.group < Len(groups)
        /\ Len(groups[h.group + 1]) = 2
        /\ groups[h.group + 1][1] < h.id
        /\ h.id < groups[h.group + 1][2]

\* a swap_front_buffer call on a live Double slot, as a step
SwapStep(h) ==
    /\ h.id \in DOMAIN buffers
    /\ buffers[h.id].variant = "Double"
    /\ swap_front_buffer(h)
\* the storage object the front selector of a Double slot selects
FrontRes(info) == IF info.front = "First" THEN info.storage[1].res ELSE info.storage[2].res
BackRes(info) == IF info.front = "First" THEN info.storage[2].res ELSE info.storage[1].res

\* C3 (amended): a swap_front_buffer call on a Double slot changes nothing
\* but that slot's front selector; a second swap restores the selector, and
\* with it image_handle and the (binding index, storage) assignment of
\* bind_group_entries; a single swap always changes that assignment, and it
\* changes image_handle exactly when the storages are textures (for a Double
\* buffer slot image_handle is None before and after).
C3_SwapTwiceRestores ==
    [][\A h \in Handles :
        SwapStep(h) =>
            LET once == buffers'[h.id]
                twice == Swapped(once)
            IN  /\ once.front # buffers[h.id].front
                /\ twice = buffers[h.id]
                /\ Info_image_handle(twice) = image_handle(buffers, h)
                /\ bind_group_entries(twice) = bind_group_entries(buffers[h.id])
                /\ bind_group_entries(once) # bind_group_entries(buffers[h.id])
                /\ (image_handle(buffers', h) # image_handle(buffers, h))
                        <=> IsImageStorage(buffers[h.id].storage[1])
                /\ \A id \in DOMAIN buffers \ {h.id} : buffers'[id] = buffers[id]
                /\ DOMAIN buffers' = DOMAIN buffers]_vars
\* a Double buffer slot whose front selector a swap has moved to the second storage
C3_Witness ==
    \E id \in DOMAIN buffers :
        /\ buffers[id].variant = "Double"
        /\ buffers[id].front = "Second"
        /\ IsBufferStorage(buffers[id].storage[1])
\* C3 as stated: a single swap always changes both image_handle and the
\* assignment of bind_group_entries, and a second swap restores them
C3_SingleSwapChangesBoth ==
    [][\A h \in Handles :
        SwapStep(h) =>
            /\ image_handle(buffers', h) # image_handle(buffers, h)
            /\ bind_group_entries(buffers'[h.id]) # bind_group_entries(buffers[h.id])
            /\ Info_image_handle(Swapped(buffers'[h.id])) = image_handle(buffers, h)
            /\ bind_group_entries(Swapped(buffers'[h.id])) = bind_group_entries(buffers[h.id])]_vars

\* C4: the assignment bind_group_entries builds has one entry, at the declared
\* binding index, for a SingleBound slot, none for a SingleUnbound slot, and
\* two for a Double slot: the first at bindings[0] with the storage that is
\* not front, the second at bindings[1] with the front storage; a swap
\* exchanges the two storages between the entries and keeps the two indices.
C4_EntriesBackThenFront ==
    /\ [](\A id \in DOMAIN buffers :
            LET info == buffers[id]
                entries == bind_group_entries(info)
            IN  CASE info.variant = "SingleBound" ->
                        /\ Len(entries) = 1
                        /\ entries[1].binding = info.binding
                        /\ entries[1].resource = info.storage[1].res
                  [] info.variant = "SingleUnbound" -> Len(entries) = 0
                  [] info.variant = "Double" ->
                        /\ Len(entries) = 2
                        /\ entries[1].binding = info.bindings[1]
                        /\ entries[1].resource = BackRes(info)
                        /\ entries[2].binding = info.bindings[2]
                        /\ entries[2].resource = FrontRes(info)
                        /\ FrontRes(info) # BackRes(info))
    /\ [](\A b \in Bindings \cup SlotBindings : \A kind \in {UniformKind, TextureKind} :
            LET entries == bind_group_entries(ShaderBufferInfo_new(b, kind, 0))
            IN  CASE b.variant = "SingleBound" ->
                        entries = <<[binding |-> b.binding, resource |-> SlotRes(0, 1)]>>
                  [] b.variant = "SingleUnbound" -> entries = <<>>
                  [] b.variant = "Double" ->
                        entries = <<[binding |-> b.bindings[1], resource |-> SlotRes(0, 2)],
                                    [binding |-> b.bindings[2], resource |-> SlotRes(0, 1)]>>)
    /\ [][\A h \in Handles :
            SwapStep(h) =>
                LET before == bind_group_entries(buffers[h.id])
                    after == bind_group_entries(buffers'[h.id])
                IN  /\ after[1].binding = before[1].binding
                    /\ after[2].binding = before[2].binding
                    /\ after[1].resource = before[2].resource
                    /\ after[2].resource = before[1].resource]_vars
\* a Double slot after a swap, its entries being (bindings[0], first storage),
\* (bindings[1], second storage)
C4_Witness ==
    \E id \in DOMAIN buffers :
        /\ buffers[id].variant = "Double"
        /\ buffers[id].front = "Second"
        /\ bind_group_entries(buffers[id])[1].resource = buffers[id].storage[1].res
        /\ bind_group_entries(buffers[id])[2].resource = buffers[id].storage[2].res
        /\ \E other \in DOMAIN buffers : buffers[other].variant = "SingleBound"

\* the live slots made of storage or uniform buffers
BufferSlots == {id \in DOMAIN buffers : IsBufferStorage(buffers[id].storage[1])}
\* the buffers of a slot
SlotBuffers(id) == {buffers[id].storage[k].res : k \in DOMAIN buffers[id].storage}

\* C5: set_buffer(h, v) on a live slot made of buffers returns normally and
\* queues a write of v to every storage of the slot (both storages of a Double
\* slot, whichever is front; the one storage of a single slot) and to nothing
\* else; the two storages of a Double buffer slot therefore always have the
\* same pending write and, once writes are submitted, the same contents.
C5_SetWritesBothStorages ==
    /\ [][\A h \in Handles : \A v \in Values :
            (h.id \in BufferSlots /\ set_buffer(h, v)) =>
                /\ outcome'.status = "ok"
                /\ DOMAIN queue' = DOMAIN queue \cup SlotBuffers(h.id)
                /\ \A b \in SlotBuffers(h.id) : queue'[b] = v
                /\ \A b \in DOMAIN queue \ SlotBuffers(h.id) : queue'[b] = queue[b]
                /\ gpu_mem' = gpu_mem]_vars
    /\ [](\A id \in BufferSlots :
            buffers[id].variant = "Double" =>
                LET one == buffers[id].storage[1].res
                    two == buffers[id].storage[2].res
                IN  /\ one # two
                    /\ gpu_mem[one] = gpu_mem[two]
                    /\ one \in DOMAIN queue <=> two \in DOMAIN queue
                    /\ one \in DOMAIN queue => queue[one] = queue[two])
\* a Double buffer slot whose front is the second storage, with a write of a
\* new value pending on both storages, next to a single slot with no write
C5_Witness ==
    \E id \in BufferSlots :
        /\ buffers[id].variant = "Double"
        /\ buffers[id].front = "Second"
        /\ SlotBuffers(id) \subseteq DOMAIN queue
        /\ \A b \in SlotBuffers(id) : queue[b] # gpu_mem[b]
        /\ \E other \in BufferSlots : SlotBuffers(other) \cap DOMAIN queue = {}

\* the staging buffers that exist on the device
StagingBuffers == {b \in DOMAIN gpu_mem : "copy_of" \in DOMAIN b}

\* C6: create_copy_buffer(h) while h has a staging buffer panics and leaves
\* the staging table and the buffers of the device as they were; every
\* staging buffer on the device is the entry of exactly one handle.
C6_OneStagingPerHandle ==
    /\ [][\A h \in Handles :
            (h \in DOMAIN copy_buffers /\ create_copy_buffer(h)) =>
                /\ outcome' = Panicked("create_copy_buffer", "DuplicateStaging")
                /\ copy_buffers' = copy_buffers
                /\ gpu_mem' = gpu_mem]_vars
    /\ [](\A b \in StagingBuffers :
            Cardinality({h \in DOMAIN copy_buffers : copy_buffers[h] = b}) = 1)
    /\ [](\A h \in DOMAIN copy_buffers : copy_buffers[h] \in StagingBuffers)
\* the second create_copy_buffer has panicked, the first staging buffer is there
C6_Witness ==
    /\ outcome = Panicked("create_copy_buffer", "DuplicateStaging")
    /\ \E h \in DOMAIN copy_buffers : copy_buffers[h] \in DOMAIN gpu_mem

\* the readback in progress reads the staging buffer of a live single storage
\* buffer; its source buffer
ReadsLiveStorage == SourceCheck(buffers, mapping.handle) = "ok"
ReadSource == get_buffer(buffers, mapping.handle).storage[1].res

\* C7 (amended): when every write and copy issued has been submitted, and the
\* last copy_to_copy_buffer was issued after the last write to the source
\* (in issue order the staging buffer holds what the source holds), the
\* readback returns the bytes last written to the source.
C7_ReadbackAfterSubmit ==
    [][(/\ ReadMappedRange
        /\ ReadsLiveStorage
        /\ queue = EmptyMap
        /\ encoder = {}
        /\ shadow[mapping.buffer] = shadow[ReadSource])
            => /\ outcome'.status = "ok"
               /\ outcome'.value = <<shadow[ReadSource]>>
               /\ outcome'.value = <<gpu_mem[ReadSource]>>]_vars
\* a readback has returned the non-zero bytes the live source holds, which
\* reached the zero-initialised staging buffer through a submitted copy
C7_Witness ==
    /\ outcome.status = "ok"
    /\ "value" \in DOMAIN outcome
    /\ outcome.value \in {<<v>> : v \in Values \ {ZeroBytes}}
    /\ queue = EmptyMap
    /\ encoder = {}
    /\ \E h \in DOMAIN copy_buffers :
            /\ SourceCheck(buffers, h) = "ok"
            /\ <<gpu_mem[copy_buffers[h]]>> = outcome.value
            /\ <<gpu_mem[get_buffer(buffers, h).storage[1].res]>> = outcome.value
\* C7 as stated: the readback returns what the staging buffer holds once every
\* write and copy issued before it has taken effect
C7_ReadbackObservesIssued ==
    [][(ReadMappedRange /\ ReadsLiveStorage)
            => outcome'.value = <<shadow[mapping.buffer]>>]_vars

\* C8: image_handle never panics; for every handle it is None when the id
\* names no live slot or the slot is made of buffers, the image of the one
\* storage for a single texture slot and the image of the front storage for a
\* Double texture slot; after delete_buffer on a handle that had an image it
\* is None, and the image is gone from the image assets.
C8_ImageHandleOrNone ==
    /\ [](\A h \in AllHandles :
            image_handle(buffers, h) =
                IF h.id \notin DOMAIN buffers THEN None
                ELSE IF h.id \in BufferSlots THEN None
                ELSE IF buffers[h.id].variant = "Double" THEN Some(FrontRes(buffers[h.id]))
                ELSE Some(buffers[h.id].storage[1].res))
    /\ [](outcome.status = "panic" => outcome.op # "image_handle")
    /\ [][\A h \in Handles :
            (image_handle(buffers, h) # None /\ delete_buffer(h)) =>
                /\ image_handle(buffers', h) = None
                /\ image_handle(buffers, h)[1] \notin images']_vars
\* a texture slot whose image had been realised on the GPU has been deleted
C8_Witness ==
    \E h \in Range(returned) :
        /\ h.id \notin DOMAIN buffers
        /\ SlotRes(h.id, 1) \in gpu_images
        /\ image_handle(buffers, h) = None
        /\ \E id \in DOMAIN buffers :
                /\ buffers[id].variant = "Double"
                /\ buffers[id].front = "Second"
                /\ image_handle(buffers, returned[id + 1]) = Some(SlotRes(id, 2))

\* a creation call, as a step, and the handles it returned
CreationStep == Len(returned') > Len(returned)
NewHandles == SubSeq(returned', Len(returned) + 1, Len(returned'))
\* the group table after one store of the slot the handle h stands for: for a
\* Bound handle the table is padded with empty lists up to h.group and the id
\* is appended to the list of h.group; otherwise the table is as it was
GroupsAfterStore(grps, h) ==
    IF h.shape = "Bound"
        THEN [g \in 1 .. (IF Len(grps) > h.group THEN Len(grps) ELSE h.group + 1) |->
                LET old == IF g <= Len(grps) THEN grps[g] ELSE <<>>
                IN  IF g = h.group + 1 THEN Append(old, h.id) ELSE old]
        ELSE grps
\* the handle of a new slot is Bound, with the slot's group, exactly when the
\* slot was declared SingleBound or Double
HandleMatchesSlot(h, info) ==
    /\ h.shape = "Bound" <=> info.variant \in {"SingleBound", "Double"}
    /\ h.shape = "Bound" => h.group = info.group

\* C9 (amended): every creation call but add_read_write_texture stores one
\* new slot under the fresh id and returns its handle, Bound with the
\* declared group exactly when the declaration is SingleBound or Double; the
\* id is appended at the end of the declared group's list, the group table
\* being padded with empty lists to length group + 1, and the other lists are
\* unchanged. add_read_write_texture does two such stores, the read texture
\* under the fresh id and the write texture under the next, and returns both.
C9_StoreAppendsToGroup ==
    [][CreationStep =>
        LET hs == NewHandles
        IN  /\ Len(hs) \in {1, 2}
            /\ \A k \in DOMAIN hs : hs[k].id = next_id + k - 1
            /\ next_id' = next_id + Len(hs)
            /\ DOMAIN buffers' = DOMAIN buffers \cup {hs[k].id : k \in DOMAIN hs}
            /\ Cardinality(DOMAIN buffers') = Cardinality(DOMAIN buffers) + Len(hs)
            /\ \A id \in DOMAIN buffers : buffers'[id] = buffers[id]
            /\ \A k \in DOMAIN hs : HandleMatchesSlot(hs[k], buffers'[hs[k].id])
            /\ Len(hs) = 2 =>
                    /\ buffers'[hs[1].id].storage[1].ty = "Texture"
                    /\ buffers'[hs[2].id].storage[1].ty = "StorageTexture"
            /\ groups' = IF Len(hs) = 1
                            THEN GroupsAfterStore(groups, hs[1])
                            ELSE GroupsAfterStore(GroupsAfterStore(groups, hs[1]), hs[2])]_vars
\* group 0 was padded in empty, group 1 has two members in the order of
\* their creation, one of them a texture of a read/write pair
C9_Witness ==
    /\ Len(groups) = 2
    /\ groups[1] = <<>>
    /\ Len(groups[2]) = 2
    /\ groups[2][1] < groups[2][2]
    /\ \E id \in DOMAIN buffers : IsImageStorage(buffers[id].storage[1])
\* C9 as stated: every creation call stores exactly one new slot
C9_OneSlotPerCreation ==
    [][CreationStep =>
        /\ Len(NewHandles) = 1
        /\ Cardinality(DOMAIN buffers') = Cardinality(DOMAIN buffers) + 1
        /\ DOMAIN buffers' = DOMAIN buffers \cup {NewHandles[1].id}
        /\ HandleMatchesSlot(NewHandles[1], buffers'[NewHandles[1].id])
        /\ groups' = GroupsAfterStore(groups, NewHandles[1])]_vars

\* the handles that name no live slot: never returned, or already deleted
DeadHandles == {h \in AllHandles : h.id \notin DOMAIN buffers}

DoubleHandles == {h \in AllHandles : h.id \in DOMAIN buffers /\ buffers[h.id].variant = "Double"}

\* C11: swap_front_buffer panics on a handle that names no live slot
\* (HandleNotFound) and on a handle of a SingleBound or SingleUnbound slot
\* (NotDoubleBuffered), leaving slots, group lists and the id counter as they
\* were; on such a handle it cannot return normally, and on the handle of a
\* Double slot it returns normally with the front selector moved.
C11_SwapOnlyOnDouble ==
    /\ [][\A h \in AllHandles :
            swap_front_buffer(h) =>
                IF h.id \notin DOMAIN buffers
                    THEN /\ outcome' = Panicked("swap_front_buffer", "HandleNotFound")
                         /\ UNCHANGED <<buffers, groups, next_id>>
                ELSE IF buffers[h.id].variant \in {"SingleBound", "SingleUnbound"}
                    THEN /\ outcome' = Panicked("swap_front_buffer", "NotDoubleBuffered")
                         /\ UNCHANGED <<buffers, groups, next_id>>
                ELSE /\ outcome' = Done
                     /\ buffers'[h.id].front # buffers[h.id].front]_vars
    /\ [](Running => \A h \in AllHandles \ DoubleHandles :
                ~ENABLED (swap_front_buffer(h) /\ outcome'.status = "ok"))
    /\ [](Running => \A h \in DoubleHandles : ENABLED (swap_front_buffer(h) /\ outcome' = Done))
\* a swap has panicked on a single slot, next to a Double slot that was swapped
C11_Witness ==
    /\ outcome = Panicked("swap_front_buffer", "NotDoubleBuffered")
    /\ \E id \in DOMAIN buffers : buffers[id].variant # "Double"
    /\ \E id \in DOMAIN buffers : buffers[id].variant = "Double" /\ buffers[id].front = "Second"

\* h names a live single slot whose storage is a storage buffer, and has no
\* staging buffer
CanStage(h) ==
    /\ h \notin DOMAIN copy_buffers
    /\ h.id \in DOMAIN buffers
    /\ buffers[h.id].variant \in {"SingleBound", "SingleUnbound"}
    /\ buffers[h.id].storage[1].ty = "Storage"
\* why create_copy_buffer(h) panics when it does
StageRefusal(h) ==
    IF h \in DOMAIN copy_buffers THEN "DuplicateStaging"
    ELSE IF h.id \notin DOMAIN buffers THEN "HandleNotFound"
    ELSE IF buffers[h.id].variant = "Double" THEN "DoubleBuffered"
    ELSE "InvalidBufferKind"

\* C12: create_copy_buffer(h) returns normally exactly when h names a live
\* SingleBound or SingleUnbound slot whose storage is a storage buffer and h
\* has no staging buffer; it then adds one entry, for h, with a new buffer, and
\* leaves the other entries alone. Otherwise (h unknown, slot Double, storage
\* a uniform buffer or a texture, or h staged already) it panics and the
\* staging table is unchanged.
C12_StageOnlySingleStorage ==
    /\ [][\A h \in Handles :
            create_copy_buffer(h) =>
                IF CanStage(h)
                    THEN /\ outcome' = Done
                         /\ DOMAIN copy_buffers' = DOMAIN copy_buffers \cup {h}
                         /\ \A other \in DOMAIN copy_buffers :
                                copy_buffers'[other] = copy_buffers[other]
                         /\ copy_buffers'[h] \notin DOMAIN gpu_mem
                         /\ copy_buffers'[h] \in DOMAIN gpu_mem'
                    ELSE /\ outcome' = Panicked("create_copy_buffer", StageRefusal(h))
                         /\ copy_buffers' = copy_buffers
                         /\ gpu_mem' = gpu_mem]_vars
    /\ [](Running => \A h \in Handles :
                ~CanStage(h) => ~ENABLED (create_copy_buffer(h) /\ outcome'.status = "ok"))
\* create_copy_buffer has panicked on a uniform buffer or a texture while the
\* staging buffer of a storage buffer is in place
C12_Witness ==
    /\ outcome = Panicked("create_copy_buffer", "InvalidBufferKind")
    /\ \E h \in DOMAIN copy_buffers : buffers[h.id].storage[1].ty = "Storage"
    /\ \E id \in DOMAIN buffers :
            buffers[id].variant # "Double" /\ buffers[id].storage[1].ty # "Storage"

\* h names a live single storage buffer (the source checks pass)
SourceOk(h) ==
    /\ h.id \in DOMAIN buffers
    /\ buffers[h.id].variant \in {"SingleBound", "SingleUnbound"}
    /\ buffers[h.id].storage[1].ty = "Storage"

\* C13: without a staging entry for h, copy_to_copy_buffer(h),
\* copy_from_copy_buffer_to_vec(h) and remove_copy_buffer(h) each panic (as
\* MissingStaging; copy_to_copy_buffer reports a bad source first) and cannot
\* return normally; remove_copy_buffer(h) on an entry destroys the buffer and
\* removes the entry; and whenever h has no entry and names a live single
\* storage buffer, create_copy_buffer(h) can return normally again.
C13_StagingNeededAndReleasable ==
    /\ [][\A h \in Handles :
            (h \notin DOMAIN copy_buffers /\
             (copy_to_copy_buffer(h) \/ copy_from_copy_buffer_to_vec(h) \/ remove_copy_buffer(h)))
                => /\ outcome'.status = "panic"
                   /\ outcome'.op \in {"copy_to_copy_buffer", "copy_from_copy_buffer_to_vec",
                                       "remove_copy_buffer"}
                   /\ (outcome'.op # "copy_to_copy_buffer" \/ SourceOk(h))
                            => outcome'.reason = "MissingStaging"
                   /\ copy_buffers' = copy_buffers
                   /\ mapping' = mapping]_vars
    /\ [](Running => \A h \in Handles :
                h \notin DOMAIN copy_buffers =>
                    /\ ~ENABLED (copy_to_copy_buffer(h) /\ outcome'.status = "ok")
                    /\ ~ENABLED (copy_from_copy_buffer_to_vec(h) /\ outcome'.status = "ok")
                    /\ ~ENABLED (remove_copy_buffer(h) /\ outcome'.status = "ok"))
    /\ [][\A h \in Handles :
            (h \in DOMAIN copy_buffers /\ remove_copy_buffer(h))
                => /\ outcome' = Done
                   /\ DOMAIN copy_buffers' = DOMAIN copy_buffers \ {h}
                   /\ copy_buffers[h] \notin DOMAIN gpu_mem']_vars
    /\ [](Running => \A h \in Handles :
                (h \notin DOMAIN copy_buffers /\ SourceOk(h)
                 /\ Cardinality(DOMAIN copy_buffers) < MaxCopies)
                    => ENABLED (create_copy_buffer(h) /\ outcome' = Done))
\* a readback has panicked for want of a staging buffer, on a live single
\* storage buffer whose contents are not those a fresh buffer has
C13_Witness ==
    /\ outcome = Panicked("copy_from_copy_buffer_to_vec", "MissingStaging")
    /\ copy_buffers = EmptyMap
    /\ \E h \in Range(returned) : SourceOk(h) /\ gpu_mem[buffers[h.id].storage[1].res] # ZeroBytes

\* the sum of a sequence of lengths
RECURSIVE Sum(_)
Sum(lens) == IF lens = <<>> THEN 0 ELSE Head(lens) + Sum(Tail(lens))
\* result is the parts one after the other, in the order of their indices
IsConcatenation(result, parts) ==
    /\ Len(result) = Sum([i \in DOMAIN parts |-> Len(parts[i])])
    /\ \A i \in DOMAIN parts :
            SubSeq(result,
                   Sum([j \in 1..(i - 1) |-> Len(parts[j])]) + 1,
                   Sum([j \in 1..i |-> Len(parts[j])])) = parts[i]
\* the entries one slot contributes to its group, from its front selector
SlotEntries(info) ==
    IF info.variant = "SingleBound"
        THEN <<[binding |-> info.binding, resource |-> info.storage[1].res]>>
    ELSE IF info.variant = "SingleUnbound" THEN <<>>
    ELSE <<[binding |-> info.bindings[1], resource |-> BackRes(info)],
           [binding |-> info.bindings[2], resource |-> FrontRes(info)]>>

\* C14: when bind_groups or bind_group_layouts returns, the result has one
\* element per entry of the group table, in the order of the table, an empty
\* group giving an element with no entries; the entries of element g are the
\* entries of the members of group g one after the other in member order,
\* each slot's entries being those its front selector gives at the call.
C14_OneResultPerGroupInMemberOrder ==
    /\ [][(BindGroups /\ outcome'.status = "ok") =>
            /\ Len(outcome'.groups) = Len(groups)
            /\ \A g \in DOMAIN groups :
                  /\ IsConcatenation(outcome'.groups[g].entries,
                                     [i \in DOMAIN groups[g] |-> SlotEntries(buffers[groups[g][i]])])
                  /\ IsConcatenation(outcome'.groups[g].layout,
                                     [i \in DOMAIN groups[g] |->
                                        bind_group_layout_entry(buffers[groups[g][i]])])]_vars
    /\ [][(BindGroupLayouts /\ outcome'.status = "ok") =>
            /\ Len(outcome'.groups) = Len(groups)
            /\ \A g \in DOMAIN groups :
                  IsConcatenation(outcome'.groups[g].layout,
                                  [i \in DOMAIN groups[g] |->
                                     bind_group_layout_entry(buffers[groups[g][i]])])]_vars
\* bind_groups has returned for a table whose first group is empty and whose
\* second group has several members, one of them a Double slot after a swap
C14_Witness ==
    /\ Len(groups) = 2
    /\ groups[1] = <<>>
    /\ Len(groups[2]) >= 2
    /\ \E i \in DOMAIN groups[2] :
            /\ groups[2][i] \in DOMAIN buffers
            /\ buffers[groups[2][i]].variant = "Double"
            /\ buffers[groups[2][i]].front = "Second"
    /\ outcome.status = "ok"
    /\ "groups" \in DOMAIN outcome
    /\ Len(outcome.groups) = 2
    /\ outcome.groups[1] = [layout |-> <<>>, entries |-> <<>>]
    /\ "entries" \in DOMAIN outcome.groups[2]
    /\ Len(outcome.groups[2].entries) >= 3

\* the layout type of a storage texture bound with the given access
StorageTextureType(access) == [ty |-> "StorageTexture", access |-> access]

\* C15: the layout entries of a Double slot of storage textures are the first
\* declared index with access ReadOnly and the second with access WriteOnly,
\* whatever access the creation call declared and whichever storage is front;
\* the layout entry of a SingleBound storage texture carries the declared
\* access. This holds of the slot a creation call makes with the access it was
\* given, and of every live slot afterwards.
C15_DoubleTextureReadThenWrite ==
    /\ [](\A id \in DOMAIN buffers :
            buffers[id].storage[1].ty = "StorageTexture" =>
                /\ buffers[id].variant = "Double" =>
                        bind_group_layout_entry(buffers[id]) =
                            <<[binding |-> buffers[id].bindings[1], ty |-> StorageTextureType("ReadOnly")],
                              [binding |-> buffers[id].bindings[2], ty |-> StorageTextureType("WriteOnly")]>>
                /\ buffers[id].variant = "SingleBound" =>
                        bind_group_layout_entry(buffers[id]) =
                            <<[binding |-> buffers[id].binding,
                               ty |-> StorageTextureType(buffers[id].storage[1].access)]>>)
    /\ [][\A b \in SlotBindings, a \in SlotAccesses :
            (returned' # returned /\ add_write_texture(b, a)) =>
                /\ \A k \in DOMAIN buffers'[next_id].storage :
                        buffers'[next_id].storage[k].access = a
                /\ b.variant = "SingleBound" =>
                        bind_group_layout_entry(buffers'[next_id])[1].ty = StorageTextureType(a)
                /\ b.variant = "Double" =>
                        /\ bind_group_layout_entry(buffers'[next_id])[1].ty =
                                StorageTextureType("ReadOnly")
                        /\ bind_group_layout_entry(buffers'[next_id])[2].ty =
                                StorageTextureType("WriteOnly")]_vars
\* a Double slot of storage textures declared ReadOnly, after a swap, next to
\* a SingleBound storage texture declared WriteOnly
C15_Witness ==
    /\ \E id \in DOMAIN buffers :
            /\ buffers[id].variant = "Double"
            /\ buffers[id].front = "Second"
            /\ \A k \in {1, 2} : buffers[id].storage[k] \in
                    {StorageTexture("ReadOnly", SlotRes(id, k))}
    /\ \E id \in DOMAIN buffers :
            /\ buffers[id].variant = "SingleBound"
            /\ buffers[id].storage[1] = StorageTexture("WriteOnly", SlotRes(id, 1))

\* the handles of live slots whose storages are textures
ImageHandles ==
    {h \in Handles : h.id \in DOMAIN buffers /\
                      buffers[h.id].storage[1].ty \in {"Texture", "StorageTexture"}}

\* C16: set_buffer(h, v) panics when h names no live slot (HandleNotFound) and
\* when the slot's storage is a texture or a storage texture
\* (InvalidBufferKind), for a single and for a Double slot; it returns
\* normally only on a slot of storage or uniform buffers; and in every case
\* slots, group lists, front selectors and the id counter are unchanged (a
\* panicking call queues no write either).
C16_SetOnlyOnBuffers ==
    /\ [][\A h \in Handles : \A v \in Values :
            set_buffer(h, v) =>
                /\ UNCHANGED <<buffers, groups, next_id>>
                /\ IF h.id \notin DOMAIN buffers
                      THEN /\ outcome' = Panicked("set_buffer", "HandleNotFound")
                           /\ queue' = queue
                      ELSE IF h \in ImageHandles
                      THEN /\ outcome' = Panicked("set_buffer", "InvalidBufferKind")
                           /\ queue' = queue
                      ELSE /\ outcome' = Done
                           /\ buffers[h.id].storage[1].ty \in {"Storage", "Uniform"}]_vars
    /\ [](Running => \A h \in Handles :
            (h.id \notin DOMAIN buffers \/ h \in ImageHandles) =>
                ~ENABLED (\E v \in Values : set_buffer(h, v) /\ outcome'.status = "ok"))
    /\ [](Running => \A h \in Handles :
            (h.id \in DOMAIN buffers /\ h \notin ImageHandles /\ Unsubmitted(queue, encoder) = 0) =>
                \A v \in Values : ENABLED (set_buffer(h, v) /\ outcome' = Done))
\* set_buffer has panicked on a Double slot of textures, the only kind of slot
\* there is
C16_Witness ==
    /\ outcome = Panicked("set_buffer", "InvalidBufferKind")
    /\ DOMAIN buffers # {}
    /\ \A id \in DOMAIN buffers :
            buffers[id].variant = "Double" /\ buffers[id].storage[2].ty = "StorageTexture"

\* the storage copy_texture reads the image of: the one storage of a single
\* slot, the front storage of a Double slot
CopyStorage(h) ==
    IF buffers[h.id].variant # "Double" THEN buffers[h.id].storage[1]
    ELSE IF buffers[h.id].front = "First" THEN buffers[h.id].storage[1]
    ELSE buffers[h.id].storage[2]
\* the handle is live; its slot has an image; the image is on the GPU
IsLive(h) == h.id \in DOMAIN buffers
HasImage(h) == IsLive(h) /\ CopyStorage(h).ty \in {"Texture", "StorageTexture"}
IsRealized(h) == HasImage(h) /\ CopyStorage(h).res \in gpu_images

\* C17: copy_texture(src, dst) records a texture copy, from the image of src's
\* slot to the image of dst's slot (the front storage's image for a Double
\* slot), only when both handles are live, both slots have an image and both
\* images are on the GPU, and then it can return normally; when one of these
\* six conditions fails it panics, records nothing and cannot return normally;
\* slots, group lists and the id counter are unchanged in every case.
C17_CopyNeedsSixConditions ==
    /\ [][(outcome'.status = "panic" => outcome'.op = "copy_texture") =>
           \A src \in Handles, dst \in Handles :
            copy_texture(src, dst) =>
                /\ UNCHANGED <<buffers, groups, next_id, images, gpu_images>>
                /\ IF ~(IsLive(src) /\ IsLive(dst))
                      THEN /\ outcome' = Panicked("copy_texture", "HandleNotFound")
                           /\ encoder' = encoder
                      ELSE IF ~(HasImage(src) /\ HasImage(dst))
                      THEN /\ outcome' = Panicked("copy_texture", "NoImage")
                           /\ encoder' = encoder
                      ELSE IF ~(IsRealized(src) /\ IsRealized(dst))
                      THEN /\ outcome' = Panicked("copy_texture", "MissingGpuResource")
                           /\ encoder' = encoder
                      ELSE /\ outcome' = Done
                           /\ encoder' = encoder \cup
                                  {[kind |-> "texture", src |-> CopyStorage(src).res,
                                    dst |-> CopyStorage(dst).res]}]_vars
    /\ [](Running => \A src \in Handles, dst \in Handles :
            ~(IsRealized(src) /\ IsRealized(dst)) =>
                ~ENABLED (copy_texture(src, dst) /\ outcome'.status = "ok"))
    /\ [](Running => \A src \in Handles, dst \in Handles :
            (IsRealized(src) /\ IsRealized(dst) /\ Unsubmitted(queue, encoder) = 0) =>
                ENABLED (copy_texture(src, dst) /\ outcome' = Done))
\* a copy between two realized images of two live slots is recorded, out of
\* the second storage of a Double slot whose front it is
C17_Witness ==
    /\ outcome = Done
    /\ \E c \in encoder :
            /\ c.kind = "texture"
            /\ c.src # c.dst
            /\ {c.src, c.dst} \subseteq gpu_images
            /\ c.src.k = 2
            /\ {c.src.slot, c.dst.slot} \subseteq DOMAIN buffers
            /\ buffers[c.src.slot].front = "Second"

\* everything but the progress of a readback and the value a call returns
CallState ==
    <<buffers, groups, next_id, copy_buffers, images, gpu_images, gpu_mem, queue, encoder,
      returned, shadow>>

\* C18: copy_from_copy_buffer_to_vec(h) goes through map request, completion
\* by the device, read and unmap, return, in that order: a map request is made
\* only when none is in flight and no buffer is mapped, for the staging buffer
\* of h; the buffer becomes mapped only by the device completing the request;
\* the call returns only from the mapped state, with the bytes of the mapped
\* buffer, and leaves the buffer unmapped. While a request is in flight or a
\* buffer is mapped no other call runs and nothing else changes, so between
\* two calls no staging buffer is mapped or being mapped. If the device
\* completes every request, a call that made a request returns.
C18_MapWaitReadUnmap ==
    /\ [][mapping' # mapping =>
            \/ /\ mapping.state = "idle"
               /\ mapping'.state = "pending"
               /\ mapping'.handle \in DOMAIN copy_buffers
               /\ mapping'.buffer = copy_buffers[mapping'.handle]
               /\ outcome' = outcome
            \/ /\ mapping.state = "pending"
               /\ mapping' = [state |-> "mapped", handle |-> mapping.handle,
                              buffer |-> mapping.buffer]
               /\ outcome' = outcome
            \/ /\ mapping.state = "mapped"
               /\ mapping' = [state |-> "idle"]
               /\ outcome' = [status |-> "ok", value |-> <<gpu_mem[mapping.buffer]>>]]_vars
    /\ [][mapping.state # "idle" =>
            /\ UNCHANGED CallState
            /\ mapping' # mapping
            /\ outcome' # outcome => mapping.state = "mapped"]_vars
    /\ [][(outcome' # outcome \/ CallState' # CallState) =>
            mapping' = [state |-> "idle"]]_vars
    /\ [](mapping.state # "idle" =>
            /\ outcome.status = "ok"
            /\ mapping.handle \in DOMAIN copy_buffers
            /\ mapping.buffer = copy_buffers[mapping.handle]
            /\ mapping.buffer \in DOMAIN gpu_mem)
    /\ \A h \in AllHandles :
            (mapping.state = "pending" /\ mapping.handle = h)
                ~> (mapping.state = "idle" /\ outcome.status = "ok" /\ h \in DOMAIN copy_buffers
                    /\ outcome = [status |-> "ok", value |-> <<gpu_mem[copy_buffers[h]]>>])
\* a readback has returned bytes that a submitted copy brought into the
\* staging buffer, and no buffer is left mapped
C18_Witness ==
    /\ mapping = [state |-> "idle"]
    /\ outcome.status = "ok"
    /\ "value" \in DOMAIN outcome
    /\ \E h \in DOMAIN copy_buffers :
            outcome.value = <<gpu_mem[copy_buffers[h]]>> /\ gpu_mem[copy_buffers[h]] # ZeroBytes

\* C19: a swap_front_buffer(h) call that returns changes the front selector
\* of the slot h names and nothing else: that slot keeps its variant, group,
\* binding indices and both storages in their places; every other slot,
\* the front selectors of other Double slots included, every group member
\* list, the id counter, the staging table and the images and buffers of the
\* device are as they were.
C19_SwapTouchesOnlyFront ==
    [][\A h \in AllHandles :
        (swap_front_buffer(h) /\ outcome'.status = "ok") =>
            /\ DOMAIN buffers' = DOMAIN buffers
            /\ h.id \in DOMAIN buffers
            /\ buffers'[h.id].front # buffers[h.id].front
            /\ buffers'[h.id].front \in {"First", "Second"}
            /\ buffers'[h.id].variant = buffers[h.id].variant
            /\ buffers'[h.id].group = buffers[h.id].group
            /\ buffers'[h.id].bindings = buffers[h.id].bindings
            /\ buffers'[h.id].storage = buffers[h.id].storage
            /\ DOMAIN buffers'[h.id] = DOMAIN buffers[h.id]
            /\ \A id \in DOMAIN buffers \ {h.id} : buffers'[id] = buffers[id]
            /\ UNCHANGED <<groups, next_id, copy_buffers, images, gpu_images, gpu_mem, queue,
                           encoder, mapping, returned>>]_vars
\* two Double slots whose front selectors differ: one has been swapped, the
\* other has not
C19_Witness ==
    /\ outcome = Done
    /\ \E one \in DOMAIN buffers, other \in DOMAIN buffers :
            /\ buffers[one].variant = "Double"
            /\ buffers[other].variant = "Double"
            /\ buffers[one].front = "Second"
            /\ buffers[other].front = "First"
            /\ buffers[one].storage[1].ty = buffers[other].storage[1].ty

\* a layout type through which a shader can only read; can write
IsReadOnlyType(t) ==
    \/ t.ty = "StorageTexture" /\ t.access = "ReadOnly"
    \/ t.ty = "Buffer" /\ t.buffer = "Storage" /\ t.read_only
IsWritableType(t) ==
    \/ t.ty = "StorageTexture" /\ t.access \in {"WriteOnly", "ReadWrite"}
    \/ t.ty = "Buffer" /\ t.buffer = "Storage" /\ ~t.read_only
\* the live Double slots made of storage buffers, of storage textures
DoubleOf(ty) ==
    {id \in DOMAIN buffers : buffers[id].variant = "Double" /\ buffers[id].storage[1].ty = ty}

\* C20 (amended): in every Double slot the first entry binds the back storage
\* and the second the front storage, and a swap exchanges the two storages
\* between the entries while the layout entries stay as they are. The layout
\* is asymmetric only for storage textures: first entry ReadOnly, second
\* WriteOnly. For a Double slot of storage buffers both layout entries carry
\* the read-only flag the creation call declared: both writable when it was
\* false, both read-only when it was true.
C20_AsymmetricOnlyForStorageTextures ==
    /\ [](\A id \in DOMAIN buffers :
            buffers[id].variant = "Double" =>
                /\ bind_group_entries(buffers[id])[1].resource = BackRes(buffers[id])
                /\ bind_group_entries(buffers[id])[2].resource = FrontRes(buffers[id])
                /\ bind_group_layout_entry(buffers[id])[1].binding = buffers[id].bindings[1]
                /\ bind_group_layout_entry(buffers[id])[2].binding = buffers[id].bindings[2])
    /\ [](\A id \in DoubleOf("StorageTexture") :
            /\ bind_group_layout_entry(buffers[id])[1].ty =
                    [ty |-> "StorageTexture", access |-> "ReadOnly"]
            /\ bind_group_layout_entry(buffers[id])[2].ty =
                    [ty |-> "StorageTexture", access |-> "WriteOnly"])
    /\ [](\A id \in DoubleOf("Storage") :
            /\ buffers[id].storage[1].readonly = buffers[id].storage[2].readonly
            /\ \A k \in {1, 2} :
                    bind_group_layout_entry(buffers[id])[k].ty =
                        [ty |-> "Buffer", buffer |-> "Storage",
                         read_only |-> buffers[id].storage[1].readonly])
    /\ [][\A b \in SlotBindings, r \in BOOLEAN :
            (b.variant = "Double" /\ returned' # returned /\
             (add_storage_uninit(b, r) \/ add_storage_zeroed(b, r) \/
              \E d \in SlotValues : add_storage_init(b, d, r))) =>
                \A k \in {1, 2} : bind_group_layout_entry(buffers'[next_id])[k].ty.read_only = r]_vars
    /\ [][\A h \in Handles :
            SwapStep(h) =>
                /\ bind_group_layout_entry(buffers'[h.id]) = bind_group_layout_entry(buffers[h.id])
                /\ bind_group_entries(buffers'[h.id])[1].resource =
                        bind_group_entries(buffers[h.id])[2].resource
                /\ bind_group_entries(buffers'[h.id])[2].resource =
                        bind_group_entries(buffers[h.id])[1].resource]_vars
\* a Double slot of writable storage buffers, after a swap: its back entry is
\* not read-only
C20_Witness ==
    \E id \in DoubleOf("Storage") :
        /\ buffers[id].front = "Second"
        /\ ~buffers[id].storage[1].readonly
        /\ ~IsReadOnlyType(bind_group_layout_entry(buffers[id])[1].ty)
\* C20 as stated: in every Double slot of storage buffers or storage textures
\* the entry of the back storage is read-only and the entry of the front
\* storage is writable
C20_AsymmetricForEveryDouble ==
    \A id \in DoubleOf("Storage") \cup DoubleOf("StorageTexture") :
        /\ bind_group_entries(buffers[id])[1].resource = BackRes(buffers[id])
        /\ IsReadOnlyType(bind_group_layout_entry(buffers[id])[1].ty)
        /\ bind_group_entries(buffers[id])[2].resource = FrontRes(buffers[id])
        /\ IsWritableType(bind_group_layout_entry(buffers[id])[2].ty)

\* a and b have the same shape, the same id and, when Bound, the same group
SameHandle(a, b) ==
    \/ a.shape = "Unbound" /\ b.shape = "Unbound" /\ a.id = b.id
    \/ a.shape = "Bound" /\ b.shape = "Bound" /\ a.id = b.id /\ a.group = b.group

\* C21 (amended): two handles are equal exactly when they have the same shape,
\* the same id and, when Bound, the same group; a handle selects a staging
\* entry exactly when the entry was made under an equal handle. Two handles
\* with one id and different shapes or groups name the same slot and select
\* different staging entries: with an entry under one of them, the staging
\* calls on the other find none, and create_copy_buffer on the other is not
\* refused as a duplicate.
C21_HandlesEqualByShapeGroupAndId ==
    /\ [](\A a \in AllHandles, b \in AllHandles : Handle_eq(a, b) <=> SameHandle(a, b))
    /\ [](\A h \in AllHandles :
            HasCopy(copy_buffers, h) <=> \E key \in DOMAIN copy_buffers : SameHandle(key, h))
    /\ [](\A a \in AllHandles, b \in AllHandles :
            a.id = b.id => (HasBuffer(buffers, a) <=> HasBuffer(buffers, b)))
    /\ [][\A h \in AllHandles :
            ((\A key \in DOMAIN copy_buffers : ~SameHandle(key, h)) /\
             (copy_from_copy_buffer_to_vec(h) \/ remove_copy_buffer(h)))
                => outcome'.status = "panic" /\ outcome'.reason = "MissingStaging"]_vars
    /\ [][\A h \in AllHandles :
            ((\A key \in DOMAIN copy_buffers : ~SameHandle(key, h)) /\ create_copy_buffer(h))
                => outcome' # [status |-> "panic", op |-> "create_copy_buffer",
                               reason |-> "DuplicateStaging"]]_vars
\* a staging entry made under a handle the registry did not return, for a live
\* slot whose returned handle, of the same id, selects no entry
C21_Witness ==
    \E key \in DOMAIN copy_buffers : \E h \in Range(returned) :
        /\ key.id = h.id
        /\ key.shape # h.shape
        /\ h.id \in DOMAIN buffers
        /\ ~HasCopy(copy_buffers, h)
        /\ gpu_mem[copy_buffers[key]] # ZeroBytes
\* C21 as stated: two handles are equal, and select the same staging entry,
\* exactly when they carry the same id
C21_HandlesEqualById ==
    \A a \in AllHandles, b \in AllHandles :
        /\ Handle_eq(a, b) <=> a.id = b.id
        /\ a.id = b.id => (HasCopy(copy_buffers, a) <=> HasCopy(copy_buffers, b))

\* the declaration names a group (SingleBound or Double)
IsBoundDeclaration(b) == b.variant \in {"SingleBound", "Double"}
\* slot info was made for declaration b: same variant, group and indices
SlotDeclaredAs(info, b) ==
    /\ info.variant = b.variant
    /\ IsBoundDeclaration(b) => info.group = b.group
    /\ b.variant = "SingleBound" => info.binding = b.binding
    /\ b.variant = "Double" => info.bindings = b.bindings /\ info.front = "First"
\* the handle a slot declared as b and stored under id is returned with
DeclaredHandle(b, id) ==
    IF IsBoundDeclaration(b) THEN [shape |-> "Bound", group |-> b.group, id |-> id]
    ELSE [shape |-> "Unbound", id |-> id]
\* the length of the group table once declaration b has been stored
LenWith(n, b) == IF IsBoundDeclaration(b) /\ b.group + 1 > n THEN b.group + 1 ELSE n
\* <<id>> when declaration b names group g (counted from 0), else nothing
MemberIn(b, g, id) == IF IsBoundDeclaration(b) /\ b.group = g THEN <<id>> ELSE <<>>

\* C22: add_read_write_texture(read_binding, write_binding) stores two slots
\* and returns two handles, the read handle with the fresh id and the write
\* handle with the next one; the read slot holds plain textures and the write
\* slot storage textures with ReadWrite access, on images of their own that
\* did not exist before; each slot has the shape of its own declaration and
\* its handle is that declaration's; the group of read_binding gets the read
\* id appended and the group of write_binding the write id (the read id
\* first when they are the same group), the table being padded as needed.
C22_PairStoredUnderOwnDeclarations ==
    [][next_id' = next_id + 2 =>
       \A rb \in Bindings, wb \in Bindings :
        add_read_write_texture(rb, wb) =>
            /\ DOMAIN buffers' = DOMAIN buffers \cup {next_id, next_id + 1}
            /\ {next_id, next_id + 1} \cap DOMAIN buffers = {}
            /\ \A id \in DOMAIN buffers : buffers'[id] = buffers[id]
            /\ returned' = returned \o <<DeclaredHandle(rb, next_id),
                                          DeclaredHandle(wb, next_id + 1)>>
            /\ SlotDeclaredAs(buffers'[next_id], rb)
            /\ SlotDeclaredAs(buffers'[next_id + 1], wb)
            /\ Len(buffers'[next_id].storage) = IF rb.variant = "Double" THEN 2 ELSE 1
            /\ Len(buffers'[next_id + 1].storage) = IF wb.variant = "Double" THEN 2 ELSE 1
            /\ \A k \in DOMAIN buffers'[next_id].storage :
                    buffers'[next_id].storage[k] = [ty |-> "Texture", res |-> SlotRes(next_id, k)]
            /\ \A k \in DOMAIN buffers'[next_id + 1].storage :
                    buffers'[next_id + 1].storage[k] =
                        [ty |-> "StorageTexture", access |-> "ReadWrite",
                         res |-> SlotRes(next_id + 1, k)]
            /\ images' = images
                    \cup {SlotRes(next_id, k) : k \in DOMAIN buffers'[next_id].storage}
                    \cup {SlotRes(next_id + 1, k) : k \in DOMAIN buffers'[next_id + 1].storage}
            /\ \A id \in {next_id, next_id + 1}, k \in {1, 2} : SlotRes(id, k) \notin images
            /\ Len(groups') = LenWith(LenWith(Len(groups), rb), wb)
            /\ \A g \in DOMAIN groups' :
                    groups'[g] = (IF g \in DOMAIN groups THEN groups[g] ELSE <<>>)
                                    \o MemberIn(rb, g - 1, next_id)
                                    \o MemberIn(wb, g - 1, next_id + 1)]_vars
\* a read/write pair declared in two groups: the read texture, with the
\* smaller id, is in group 1 and the write texture in group 0
C22_Witness ==
    \E id \in DOMAIN buffers :
        /\ id + 1 \in DOMAIN buffers
        /\ buffers[id].storage[1].ty = "Texture"
        /\ buffers[id + 1].storage[1] = StorageTexture("ReadWrite", SlotRes(id + 1, 1))
        /\ buffers[id].variant # "SingleUnbound"
        /\ buffers[id + 1].variant # "SingleUnbound"
        /\ buffers[id].group = 1
        /\ buffers[id + 1].group = 0
        /\ Len(groups) = 2
        /\ id \in Range(groups[2])
        /\ id + 1 \in Range(groups[1])

\* the places (group, position) of the group table that hold the id
Places(id) ==
    {p \in {<<g, i>> : g \in DOMAIN groups, i \in 1 .. MaxId} :
        p[2] \in DOMAIN groups[p[1]] /\ groups[p[1]][p[2]] = id}

\* C23: when the calls use handles the registry returned (or handles whose id
\* it never handed out), every id in a group's member list is a key of the
\* slot table; the id of every live SingleBound or Double slot is in the
\* group table exactly once, in the group of its declaration, which is the
\* group its handle carries; the id of a SingleUnbound slot is in no group;
\* and bind_groups and bind_group_layouts never panic on a missing id.
C23_GroupTableMatchesSlotTable ==
    /\ [](\A g \in DOMAIN groups : \A i \in DOMAIN groups[g] : groups[g][i] \in DOMAIN buffers)
    /\ [](\A id \in DOMAIN buffers :
            IF buffers[id].variant = "SingleUnbound"
                THEN Places(id) = {}
                ELSE /\ Cardinality(Places(id)) = 1
                     /\ \A p \in Places(id) : p[1] = buffers[id].group + 1
                     /\ \A h \in Range(returned) :
                            h.id = id => h.shape = "Bound" /\ h.group = buffers[id].group)
    /\ [](\A h \in Range(returned) :
            (h.id \in DOMAIN buffers /\ buffers[h.id].variant = "SingleUnbound")
                => h.shape = "Unbound")
    /\ [](outcome.status = "panic" =>
            ~(outcome.op \in {"bind_groups", "bind_group_layouts"}
              /\ outcome.reason = "HandleNotFound"))
    /\ [][(BindGroupLayouts \/ BindGroups) =>
            (outcome'.status = "ok" \/ outcome'.reason = "MissingGpuResource")]_vars
\* bind_groups or bind_group_layouts has returned for a table from which a
\* bound slot was deleted while another slot of the same group stays, next to
\* a slot that is in no group
C23_Witness ==
    /\ "groups" \in DOMAIN outcome
    /\ \E h \in Range(returned) :
            /\ h.shape = "Bound"
            /\ h.id \notin DOMAIN buffers
            /\ \E id \in Range(groups[h.group + 1]) : id > h.id
    /\ \E id \in DOMAIN buffers : buffers[id].variant = "SingleUnbound"

\* the staged handles whose slot has been deleted
Orphans == {h \in DOMAIN copy_buffers : h.id \notin DOMAIN buffers}

\* C24: delete_buffer(h) leaves the staging table and every staging buffer as
\* they were; an entry leaves the table only by remove_copy_buffer on its
\* handle. For a staged handle whose slot is deleted, copy_to_copy_buffer and
\* create_copy_buffer panic and cannot return, and remove_copy_buffer returns
\* with the entry removed and its buffer destroyed. Every staged handle was
\* returned by the registry with an id below the counter, so the handles of a
\* later creation, which carry the counter's ids, select no entry.
C24_StagingOutlivesSlot ==
    /\ [][copy_buffers # EmptyMap =>
            \A h \in Handles :
                delete_buffer(h) =>
                    /\ copy_buffers' = copy_buffers
                    /\ \A key \in DOMAIN copy_buffers :
                            /\ copy_buffers[key] \in DOMAIN gpu_mem'
                            /\ gpu_mem'[copy_buffers[key]] = gpu_mem[copy_buffers[key]]]_vars
    /\ [][copy_buffers' # copy_buffers =>
            \A key \in DOMAIN copy_buffers :
                key \notin DOMAIN copy_buffers' => remove_copy_buffer(key)]_vars
    /\ [][Orphans # {} =>
            \A h \in Orphans :
                /\ copy_to_copy_buffer(h) =>
                        outcome' = [status |-> "panic", op |-> "copy_to_copy_buffer",
                                    reason |-> "HandleNotFound"]
                /\ create_copy_buffer(h) =>
                        outcome'.status = "panic" /\ copy_buffers' = copy_buffers
                /\ remove_copy_buffer(h) =>
                        /\ outcome' = Done
                        /\ h \notin DOMAIN copy_buffers'
                        /\ copy_buffers[h] \notin DOMAIN gpu_mem']_vars
    /\ [](Running => \A h \in Orphans :
            /\ ~ENABLED (copy_to_copy_buffer(h) /\ outcome'.status = "ok")
            /\ ~ENABLED (create_copy_buffer(h) /\ outcome'.status = "ok")
            /\ ENABLED (remove_copy_buffer(h) /\ outcome' = Done))
    /\ [](\A key \in DOMAIN copy_buffers :
            /\ key \in Range(returned)
            /\ key.id < next_id
            /\ copy_buffers[key] \in DOMAIN gpu_mem)
    /\ [][returned' # returned =>
            \A i \in DOMAIN returned' \ DOMAIN returned :
                /\ returned'[i].id >= next_id
                /\ \A key \in DOMAIN copy_buffers' : key.id # returned'[i].id]_vars
\* a staging entry whose slot was deleted, with the bytes a submitted copy
\* brought, while a slot created after the deletion is live
C24_Witness ==
    \E h \in Orphans :
        /\ gpu_mem[copy_buffers[h]] # ZeroBytes
        /\ \E id \in DOMAIN buffers : id > h.id
        /\ outcome = Done

\* whether the buffer or image of a storage exists in mem and imgs
StorageExists(storage, mem, imgs) ==
    IF storage.ty \in {"Storage", "Uniform"}
        THEN storage.res \in DOMAIN mem
        ELSE storage.res \in imgs
\* the buffers and images of the slot with this id
StoragesOf(id) == {buffers[id].storage[k].res : k \in DOMAIN buffers[id].storage}
\* the buffers and images that exist
Existing(mem, imgs) == DOMAIN mem \cup imgs
\* the buffers and images a step releases
Released == Existing(gpu_mem, images) \ Existing(gpu_mem', images')

\* C25: a release always hits a storage that exists and whose owner has left
\* its table in the same step. Every storage of a live slot and every staging
\* buffer of a staged handle exists; each storage belongs to one slot (the
\* two storages of a Double slot are two) and each staging buffer to one
\* entry; no storage of a removed slot or removed entry exists. A step that
\* releases anything is a delete_buffer that removes one live slot and
\* releases exactly its storages (two for a Double slot, one otherwise), or a
\* remove_copy_buffer that removes one entry and releases exactly its buffer.
\* A delete_buffer on a handle with no live slot and a remove_copy_buffer on a
\* handle with no entry release nothing.
C25_EachStorageReleasedOnce ==
    /\ [](\A id \in DOMAIN buffers :
            /\ \A k \in DOMAIN buffers[id].storage :
                    /\ StorageExists(buffers[id].storage[k], gpu_mem, images)
                    /\ buffers[id].storage[k].res = [slot |-> id, k |-> k]
            /\ Len(buffers[id].storage) = IF buffers[id].variant = "Double" THEN 2 ELSE 1)
    /\ [](\A key \in DOMAIN copy_buffers :
            /\ copy_buffers[key] \in DOMAIN gpu_mem
            /\ copy_buffers[key] = [copy_of |-> key])
    /\ [](\A res \in Existing(gpu_mem, images) :
            IF "slot" \in DOMAIN res
                THEN res.slot \in DOMAIN buffers /\ res \in StoragesOf(res.slot)
                ELSE res.copy_of \in DOMAIN copy_buffers)
    /\ [][Released # {} =>
            \/ \E id \in DOMAIN buffers \ DOMAIN buffers' :
                    /\ DOMAIN buffers' = DOMAIN buffers \ {id}
                    /\ Released = StoragesOf(id)
                    /\ Cardinality(Released) = IF buffers[id].variant = "Double" THEN 2 ELSE 1
                    /\ copy_buffers' = copy_buffers
                    /\ \E h \in Handles : h.id = id /\ delete_buffer(h)
            \/ \E key \in DOMAIN copy_buffers \ DOMAIN copy_buffers' :
                    /\ DOMAIN copy_buffers' = DOMAIN copy_buffers \ {key}
                    /\ Released = {copy_buffers[key]}
                    /\ buffers' = buffers
                    /\ remove_copy_buffer(key)]_vars
    /\ [][DOMAIN buffers' # DOMAIN buffers =>
            \A id \in DOMAIN buffers \ DOMAIN buffers' : StoragesOf(id) \subseteq Released]_vars
    /\ [][DOMAIN copy_buffers' # DOMAIN copy_buffers =>
            \A key \in DOMAIN copy_buffers \ DOMAIN copy_buffers' :
                copy_buffers[key] \in Released]_vars
    /\ [](Running => \A h \in Handles :
            /\ h.id \notin DOMAIN buffers =>
                    ~ENABLED (delete_buffer(h) /\ Existing(gpu_mem', images') # Existing(gpu_mem, images))
            /\ h \notin DOMAIN copy_buffers =>
                    ~ENABLED (remove_copy_buffer(h) /\ (outcome'.status = "ok"
                                \/ Existing(gpu_mem', images') # Existing(gpu_mem, images))))
\* a returned handle whose slot was deleted and whose storages are gone, a
\* second release of a staging buffer just refused, and a live Double slot
\* whose two storages exist
C25_Witness ==
    /\ outcome = [status |-> "panic", op |-> "remove_copy_buffer", reason |-> "MissingStaging"]
    /\ \E h \in Range(returned) :
            /\ h.id \notin DOMAIN buffers
            /\ Existing(gpu_mem, images) \cap {[slot |-> h.id, k |-> 1], [slot |-> h.id, k |-> 2]} = {}
    /\ \E id \in DOMAIN buffers :
            /\ buffers[id].variant = "Double"
            /\ {[slot |-> id, k |-> 1], [slot |-> id, k |-> 2]} \subseteq Existing(gpu_mem, images)

====
